---- MODULE Spec2Model ----
(***************************************************************************)
(* A model of source/speech/speech.py (NVDA speech core).                  *)
(*                                                                         *)
(* Strings are sequences of code points; a code point is written as a     *)
(* short name ("sp" is U+0020, "tab" is U+0009, "nbsp" is U+00A0,           *)
(* "acute" is the combining acute accent U+0301, "fi" is the ligature      *)
(* U+FB01, "aacute"/"Aacute" are the precomposed letters).  A speech        *)
(* sequence is a sequence of items [k, s, n]: k is the kind of the item,   *)
(* s its text (for a text chunk) or tag, n its number.                     *)
(*                                                                         *)
(* The specifications of the module:                                       *)
(*   Spec              getTextInfoSpeech and the per-object cache          *)
(*   SpecSpeakTextInfo getTextInfoSpeech on deeper stacks, longer texts    *)
(*   SpecSelection     speakSelectionMessage                               *)
(*   SpecSpelling      getSpellingSpeech                                   *)
(*   SpecCharDescList  getCharDescListFromText, iteration by iteration     *)
(*   SpecIndentation   getIndentationSpeech                                *)
(*   SpecProperties    getPropertiesSpeech, the table cell coordinates     *)
(*   SpecTableEntry    getPropertiesSpeech, called for tables and cells    *)
(*   SpecReport        getPropertiesSpeech, the name, role and value       *)
(*   SpecFormat        getFormatFieldSpeech                                *)
(*   SpecSpeak         speak()                                             *)
(*   SpecSpeechState   speak, cancelSpeech, pauseSpeech, setSpeechMode     *)
(*   SpecObjectProperties  getObjectPropertiesSpeech                       *)
(*   SpecTyped         speakTypedCharacters, two runs side by side         *)
(***************************************************************************)
EXTENDS Integers, Sequences, FiniteSets, TLC

VARIABLES
    objState,   \* obj._speakTextInfoState of the one subject: NoState or a SpeakTextInfoState
    heap,       \* the format-attribute dicts, by identity: heap[d] is the content of dict d
    gen,        \* the generator object returned by getTextInfoSpeech, and its locals
    call,       \* what the running / last describe call was given and has produced
    sel,        \* speakSelectionMessage: its arguments and what it handed to speak()
    spell,      \* getSpellingSpeech: its arguments, configuration and result
    indent,     \* getIndentationSpeech: its arguments, configuration and result
    table,      \* getPropertiesSpeech: the table values _speechState keeps, the report and its result
    spk,        \* speak(): its arguments, configuration, position and what it has done
    scan,       \* getCharDescListFromText: its arguments and the locals of its loop
    report,     \* getPropertiesSpeech: the name, role and value of a report and what was returned
    format,     \* getFormatFieldSpeech: the attributes cache, the field of a call and what was returned
    props,      \* getObjectPropertiesSpeech: the property cache of the object, a call and what was returned
    typed       \* speakTypedCharacters: two runs of typing, their word buffers and what each last call spoke

vars == <<objState, heap, gen, call, sel, spell, indent, table, spk, scan, report, format, props, typed>>

----------------------------------------------------------------------------
(* Speech items and small sequence helpers *)

Item(k, s, n) == [k |-> k, s |-> s, n |-> n]

TextItem(s) == Item("text", s, 0)

RECURSIVE CountKind(_, _)
CountKind(seq, k) ==
    IF seq = <<>> THEN 0
    ELSE (IF Head(seq).k = k THEN 1 ELSE 0) + CountKind(Tail(seq), k)

RECURSIVE Repeat(_, _)
Repeat(c, n) == IF n = 0 THEN <<>> ELSE <<c>> \o Repeat(c, n - 1)

RECURSIVE CountChar(_, _)
CountChar(s, c) ==
    IF s = <<>> THEN 0
    ELSE (IF Head(s) = c THEN 1 ELSE 0) + CountChar(Tail(s), c)

\* The translatable phrases, as code point sequences.
BlankMsg == <<"b", "l", "a", "n", "k">>
NoIndentMsg == <<"n", "o", "sp", "i", "n", "d", "e", "n", "t">>

\* BLANK_CHUNK_CHARS, restricted to the code points of the model
BLANK_CHUNK_CHARS == {"sp", "nbsp"}

isBlank(text) == text = <<>> \/ \A i \in 1..Len(text) : text[i] \in BLANK_CHUNK_CHARS

\* characterProcessing.processSpeechSymbol for one character: the symbol's
\* replacement, or the character itself when the locale has none for it.
processSpeechSymbol(ch) ==
    CASE ch = <<"sp">>  -> <<"s", "p", "a", "c", "e">>
      [] ch = <<"tab">> -> <<"t", "a", "b">>
      [] OTHER -> ch

----------------------------------------------------------------------------
(* speakSelectionMessage / _getSelectionMessageSpeech *)

MAX_LENGTH_FOR_SELECTION_REPORTING == 512

\* longest selected text tried
MaxSelLen == 514

\* The selected text is kept by its length and by whether it is blank;
\* the message by whether it has words besides the %s placeholder.
SelTexts == {t \in [len : 0..MaxSelLen, blank : BOOLEAN] : t.len = 0 => t.blank}

SelMessages == {"%s selected", "selected %s", "%s"}

\* _getSpeakMessageSpeech on message % shown: "blank" for a blank result
getSpeakMessageSpeech(message, form, n, shownBlank) ==
    IF message = "%s" /\ shownBlank
    THEN <<Item("text", "blank", 0)>>
    ELSE <<Item("text", form, n)>>

SelectionSpeaksLiterally(len) == len < MAX_LENGTH_FOR_SELECTION_REPORTING

getSelectionMessageSpeech(message, text) ==
    IF SelectionSpeaksLiterally(text.len)
    THEN getSpeakMessageSpeech(message, "literal", text.len, text.blank)
    ELSE getSpeakMessageSpeech(message, "count", text.len, FALSE)

SelIdle == [called |-> FALSE, message |-> "%s", len |-> 0, blank |-> TRUE, seq |-> <<>>, spoken |-> FALSE]

speakSelectionMessage ==
    /\ ~sel.called
    /\ LET seq == getSelectionMessageSpeech(sel.message, [len |-> sel.len, blank |-> sel.blank])
       IN sel' = [sel EXCEPT !.called = TRUE, !.seq = seq, !.spoken = (seq # <<>>)]
    /\ UNCHANGED <<objState, heap, gen, call, spell, indent, table, spk, scan, report, format, props, typed>>

----------------------------------------------------------------------------
(* getIndentationSpeech *)

IDT_BASE_FREQUENCY == 220
IDT_TONE_DURATION == 80
IDT_MAX_SPACES == 72

\* most tabs, and most of every other whitespace character, in an indentation tried
MaxTabs == 19
MaxSpaces == 4

ReportLineIndentation == {"OFF", "SPEECH", "TONES", "SPEECH_AND_TONES"}
SpeechMode == {"off", "beeps", "talk", "onDemand"}

\* "em" is U+2003, a whitespace character with no symbol replacement
Indentations ==
    {Repeat("tab", a) \o Repeat("sp", b) \o Repeat("nbsp", c) \o Repeat("em", d) \o Repeat("tab", e) :
        a \in 0..MaxTabs, b \in 0..MaxSpaces, c \in 0..1, d \in 0..1, e \in 0..1}

\* indentation.replace("\xa0", " ")
ReplaceNbsp(s) == [i \in 1..Len(s) |-> IF s[i] = "nbsp" THEN "sp" ELSE s[i]]

\* RE_INDENTATION_CONVERT.finditer: the maximal runs of one repeated whitespace character
RECURSIVE RunLength(_, _)
RunLength(s, c) == IF s # <<>> /\ Head(s) = c THEN 1 + RunLength(Tail(s), c) ELSE 0

RECURSIVE IndentationRuns(_)
IndentationRuns(s) ==
    IF s = <<>> THEN <<>>
    ELSE LET n == RunLength(s, Head(s))
         IN <<[ch |-> Head(s), count |-> n]>> \o IndentationRuns(SubSeq(s, n + 1, Len(s)))

\* the spoken form of one run
IndentationRunText(run) ==
    LET symbol == processSpeechSymbol(<<run.ch>>)
    IN IF symbol = <<run.ch>> THEN Item("text", Repeat(run.ch, run.count), 0)
       ELSE IF run.count = 1 THEN Item("text", symbol, 0)
       ELSE Item("text", symbol, run.count)

RunQuarterTones(run) == IF run.ch = "tab" THEN run.count * 4 ELSE run.count

RECURSIVE SumQuarterTones(_)
SumQuarterTones(runs) ==
    IF runs = <<>> THEN 0 ELSE RunQuarterTones(Head(runs)) + SumQuarterTones(Tail(runs))

ToneWithinLimitStrict(quarterTones) == quarterTones < IDT_MAX_SPACES

ToneWithinLimit(quarterTones) == quarterTones <= IDT_MAX_SPACES

\* A beep is kept by its distance from the base frequency in quarter tones:
\* its pitch is IDT_BASE_FREQUENCY * 2 ^ (n / 24).
IndentBeep(quarterTones) == Item("beep", "IDT_BASE_FREQUENCY", quarterTones)

getIndentationSpeech(indentation, mode, speechMode) ==
    LET speechIndentConfig == mode \in {"SPEECH", "SPEECH_AND_TONES"}
        toneIndentConfig == mode \in {"TONES", "SPEECH_AND_TONES"} /\ speechMode = "talk"
        runs == IndentationRuns(ReplaceNbsp(indentation))
        res == [i \in 1..Len(runs) |-> IndentationRunText(runs[i])]
        quarterTones == SumQuarterTones(runs)
        beep == IF toneIndentConfig /\ ToneWithinLimit(quarterTones)
                THEN <<IndentBeep(quarterTones)>> ELSE <<>>
        speak == speechIndentConfig \/ (toneIndentConfig /\ ~ToneWithinLimit(quarterTones))
    IN IF indentation = <<>>
       THEN (IF toneIndentConfig THEN <<IndentBeep(0)>> ELSE <<>>)
            \o (IF speechIndentConfig THEN <<TextItem(NoIndentMsg)>> ELSE <<>>)
       ELSE beep \o (IF speak THEN res ELSE <<>>)

IndentIdle == [called |-> FALSE, indentation |-> <<>>, mode |-> "OFF", speechMode |-> "talk", seq |-> <<>>]

IndentationSpeech ==
    /\ ~indent.called
    /\ indent' = [indent EXCEPT !.called = TRUE,
                     !.seq = getIndentationSpeech(indent.indentation, indent.mode, indent.speechMode)]
    /\ UNCHANGED <<objState, heap, gen, call, sel, spell, table, spk, scan, report, format, props, typed>>

----------------------------------------------------------------------------
(* getSpellingSpeech and its helpers *)

\* longest string spelled
MaxSpellLen == 2

SpellAlphabet == {"a", "A", "sp", "acute", "fi"}

SpellTexts == UNION {[1..n -> SpellAlphabet] : n \in 0..MaxSpellLen}

\* locale arguments: "" is None / not given
SpellLocales == {"", "en_GB", "hi"}

\* getCurrentLanguage(): the language of the synthesizer's voice
DefaultLanguage == "en_US"

LocaleRoot(locale) ==
    CASE locale \in {"en_GB", "en_US"} -> "en"
      [] OTHER -> locale

\* LANGS_WITH_CONJUNCT_CHARS, restricted to the locales of the model
LANGS_WITH_CONJUNCT_CHARS == {"hi"}

Whitespace == {"sp", "tab", "nbsp", "em"}
UpperCase == {"A", "Aacute"}
LowerCase == {"a", "aacute", "fi", "f", "i"}

\* str.isspace, str.rstrip, str.isupper, str.lower
IsSpace(s) == s # <<>> /\ \A i \in 1..Len(s) : s[i] \in Whitespace

RECURSIVE RStrip(_)
RStrip(s) ==
    IF s # <<>> /\ s[Len(s)] \in Whitespace THEN RStrip(SubSeq(s, 1, Len(s) - 1)) ELSE s

IsUpper(s) ==
    /\ \E i \in 1..Len(s) : s[i] \in UpperCase
    /\ \A i \in 1..Len(s) : s[i] \notin LowerCase

LowerChar(c) == CASE c = "A" -> "a" [] c = "Aacute" -> "aacute" [] OTHER -> c

Lower(s) == [i \in 1..Len(s) |-> LowerChar(s[i])]

\* textUtils.unicodeNormalize (NFKC): compatibility decomposition, then canonical composition
RECURSIVE Decompose(_)
Decompose(s) ==
    IF s = <<>> THEN <<>>
    ELSE (CASE Head(s) = "fi" -> <<"f", "i">>
            [] Head(s) = "aacute" -> <<"a", "acute">>
            [] Head(s) = "Aacute" -> <<"A", "acute">>
            [] OTHER -> <<Head(s)>>) \o Decompose(Tail(s))

RECURSIVE Compose(_)
Compose(s) ==
    IF Len(s) < 2 THEN s
    ELSE IF s[1] = "a" /\ s[2] = "acute" THEN <<"aacute">> \o Compose(SubSeq(s, 3, Len(s)))
    ELSE IF s[1] = "A" /\ s[2] = "acute" THEN <<"Aacute">> \o Compose(SubSeq(s, 3, Len(s)))
    ELSE <<s[1]>> \o Compose(Tail(s))

unicodeNormalize(s) == Compose(Decompose(s))

\* textUtils.splitAtCharacterBoundaries: a code point and the combining marks after it
RECURSIVE MarksAfter(_)
MarksAfter(s) == IF s # <<>> /\ Head(s) = "acute" THEN 1 + MarksAfter(Tail(s)) ELSE 0

RECURSIVE splitAtCharacterBoundaries(_)
splitAtCharacterBoundaries(s) ==
    IF s = <<>> THEN <<>>
    ELSE LET n == 1 + MarksAfter(Tail(s))
         IN <<SubSeq(s, 1, n)>> \o splitAtCharacterBoundaries(SubSeq(s, n + 1, Len(s)))

\* characterProcessing.getCharacterDescription: the description variants, <<>> for none
AlphaDesc == <<"A", "l", "f", "a">>
AbleDesc == <<"A", "b", "l", "e">>
ConjDesc == <<"c", "o", "n", "j">>

getCharacterDescription(locale, s) ==
    CASE s = <<"a">> -> <<AlphaDesc, AbleDesc>>
      [] s = <<"a", "acute">> /\ LocaleRoot(locale) = "hi" -> <<ConjDesc>>
      [] OTHER -> <<>>

\* processSpeechSymbol on a string: only single characters have replacements
processSymbolOf(s) == IF Len(s) = 1 THEN processSpeechSymbol(s) ELSE s

RECURSIVE JoinWith(_, _)
JoinWith(sep, parts) ==
    IF parts = <<>> THEN <<>>
    ELSE IF Len(parts) = 1 THEN parts[1]
    ELSE parts[1] \o sep \o JoinWith(sep, Tail(parts))

\* getCharDescListFromText: longest match with a description, else one code point
RECURSIVE LongestDescribed(_, _, _)
LongestDescribed(text, locale, i) ==
    IF i = 1 \/ getCharacterDescription(locale, SubSeq(text, 1, i)) # <<>> THEN i
    ELSE LongestDescribed(text, locale, i - 1)

RECURSIVE getCharDescListFromText(_, _)
getCharDescListFromText(text, locale) ==
    IF text = <<>> THEN <<>>
    ELSE LET i == LongestDescribed(text, locale, Len(text))
             subText == SubSeq(text, 1, i)
             found == getCharacterDescription(locale, subText)
             charDesc == IF found # <<>> THEN found ELSE getCharacterDescription(locale, Lower(subText))
         IN <<[ch |-> subText, desc |-> charDesc]>>
            \o getCharDescListFromText(SubSeq(text, i + 1, Len(text)), locale)

\* getCharDescListFromText, one iteration of its loop at a time
\* longest text scanned
MaxScanLen == 4

ScanAlphabet == {"a", "A", "acute", "sp"}

ScanTexts == UNION {[1..n -> ScanAlphabet] : n \in 0..MaxScanLen}

ScanLocales == {"en_GB", "hi"}

ScanIdle ==
    [pc |-> "idle", input |-> <<>>, locale |-> "en_GB", text |-> <<>>, i |-> 0, charDescList |-> <<>>]

\* "if charDesc or i == 1"
ScanFoundDescribedOnly(charDesc, i) == charDesc # <<>>

ScanFound(charDesc, i) == charDesc # <<>> \/ i = 1

\* one iteration of "while i"
scanLookup ==
    /\ scan.pc = "loop" /\ scan.i # 0
    /\ LET subText == SubSeq(scan.text, 1, scan.i)
           charDesc == getCharacterDescription(scan.locale, subText)
           kept == IF charDesc # <<>> THEN charDesc
                   ELSE getCharacterDescription(scan.locale, Lower(subText))
           rest == SubSeq(scan.text, scan.i + 1, Len(scan.text))
       IN IF ScanFound(charDesc, scan.i)
          THEN scan' = [scan EXCEPT !.charDescList = Append(@, [ch |-> subText, desc |-> kept]),
                                    !.text = rest, !.i = Len(rest)]
          ELSE scan' = [scan EXCEPT !.i = @ - 1]
    /\ UNCHANGED <<objState, heap, gen, call, sel, spell, indent, table, spk, report, format, props, typed>>

\* "while i" is over: "return charDescList"
scanReturn ==
    /\ scan.pc = "loop" /\ scan.i = 0
    /\ scan' = [scan EXCEPT !.pc = "done"]
    /\ UNCHANGED <<objState, heap, gen, call, sel, spell, indent, table, spk, report, format, props, typed>>

CapMsgBefore == <<"c", "a", "p", "sp">>
NormalizedMsgAfter == <<"sp", "n", "o", "r", "m", "a", "l", "i", "z", "e", "d">>

getSpellingCharAddCapNotificationBeepLast(speakCharAs, sayCapForCapitals, capPitchChange, beepForCapitals, reportNormalized) ==
    (IF capPitchChange # 0 THEN <<Item("pitch", "offset", capPitchChange)>> ELSE <<>>)
    \o (IF sayCapForCapitals THEN <<TextItem(CapMsgBefore)>> ELSE <<>>)
    \o <<TextItem(speakCharAs)>>
    \o (IF reportNormalized THEN <<TextItem(NormalizedMsgAfter)>> ELSE <<>>)
    \o (IF capPitchChange # 0 THEN <<Item("pitch", "reset", 0)>> ELSE <<>>)
    \o (IF beepForCapitals THEN <<Item("beep", "cap", 2000)>> ELSE <<>>)

\* _getSpellingCharAddCapNotification ("cap %s" and "%s normalized" have an empty other half)
getSpellingCharAddCapNotification(speakCharAs, sayCapForCapitals, capPitchChange, beepForCapitals, reportNormalized) ==
    (IF capPitchChange # 0 THEN <<Item("pitch", "offset", capPitchChange)>> ELSE <<>>)
    \o (IF beepForCapitals THEN <<Item("beep", "cap", 2000)>> ELSE <<>>)
    \o (IF sayCapForCapitals THEN <<TextItem(CapMsgBefore)>> ELSE <<>>)
    \o <<TextItem(speakCharAs)>>
    \o (IF reportNormalized THEN <<TextItem(NormalizedMsgAfter)>> ELSE <<>>)
    \o (IF capPitchChange # 0 THEN <<Item("pitch", "reset", 0)>> ELSE <<>>)

\* the locale _getSpellingSpeechWithoutCharMode works in
SpellingLocale(locale, autoDialectSwitching) ==
    IF locale = "" \/ (~autoDialectSwitching /\ LocaleRoot(locale) = LocaleRoot(DefaultLanguage))
    THEN DefaultLanguage ELSE locale

\* an empty text is spoken as "blank" and nothing is spelled
SpellsBlankNever(text) == FALSE

SpellsBlank(text) == text = <<>>

\* text.rstrip(), unless the text is only whitespace
SpellingTrim(text) == IF ~IsSpace(text) THEN RStrip(text) ELSE text

\* normalization of a composition: the text becomes its one composed code point
ComposesToOneNever(text, unicodeNormalization) == FALSE

ComposesToOne(text, unicodeNormalization) ==
    unicodeNormalization /\ Len(text) > 1 /\ Len(unicodeNormalize(text)) = 1

\* The loop of _getSpellingSpeechWithoutCharMode over charDescList, from item k on.
\* c holds the call's arguments and the values computed before the loop.
\* The result is the items yielded and, per unit, the loop's local values.
RECURSIVE SpellingLoop(_, _, _)
SpellingLoop(c, charDescList, k) ==
    IF k > Len(charDescList) THEN [seq |-> <<>>, units |-> <<>>]
    ELSE
      LET item == charDescList[k]
          speakCharAs0 == IF c.localeHasConjuncts THEN item.ch ELSE item
          charDesc == IF c.localeHasConjuncts THEN item.desc
                      ELSE IF c.useCharacterDescriptions
                           THEN getCharacterDescription(c.locale, Lower(speakCharAs0))
                           ELSE <<>>
          uppercase == IsUpper(speakCharAs0)
          described == c.useCharacterDescriptions /\ charDesc # <<>>
          stop == c.useCharacterDescriptions /\ charDesc = <<>> /\ ~c.fallbackToCharIfNoDescription
          symbol == processSymbolOf(speakCharAs0)
          normalized == unicodeNormalize(speakCharAs0)
          decomposed == /\ ~described
                        /\ symbol = speakCharAs0
                        /\ ~c.textIsNormalized /\ c.unicodeNormalization
                        /\ normalized # speakCharAs0
          speakCharAs ==
              IF described
              THEN (IF c.textLength > 1 THEN charDesc[1] ELSE JoinWith(<<"icomma">>, charDesc))
              ELSE IF symbol # speakCharAs0 THEN symbol
              ELSE IF decomposed
                   THEN JoinWith(<<"sp">>, [j \in 1..Len(normalized) |-> processSpeechSymbol(<<normalized[j]>>)])
                   ELSE speakCharAs0
          itemIsNormalized == c.textIsNormalized \/ decomposed
          rest == SpellingLoop(c, charDescList, k + 1)
      IN IF stop THEN [seq |-> <<>>, units |-> <<>>]
         ELSE [seq |->
                   (IF c.langChange THEN <<Item("lang", c.locale, 0)>> ELSE <<>>)
                   \o getSpellingCharAddCapNotification(
                          speakCharAs,
                          uppercase /\ c.sayCapForCapitals,
                          IF uppercase THEN c.capPitchChange ELSE 0,
                          uppercase /\ c.beepForCapitals,
                          itemIsNormalized /\ c.reportNormalizedForCharacterNavigation)
                   \o <<Item("endUtterance", "", 0)>>
                   \o rest.seq,
               units |-> <<[speakCharAs |-> speakCharAs, normalized |-> itemIsNormalized,
                            uppercase |-> uppercase]>> \o rest.units]

\* a holds the arguments: text, locale, useCharacterDescriptions, sayCapForCapitals,
\* capPitchChange, beepForCapitals, fallbackToCharIfNoDescription, unicodeNormalization,
\* reportNormalizedForCharacterNavigation, and the configuration read on the way
\* (autoDialectSwitching, langChange = languageHandling.shouldMakeLangChangeCommand()).
getSpellingSpeechWithoutCharMode(a) ==
    LET locale == SpellingLocale(a.locale, a.autoDialectSwitching)
        trimmed == SpellingTrim(a.text)
        textIsNormalized == ComposesToOne(trimmed, a.unicodeNormalization)
        text == IF textIsNormalized THEN unicodeNormalize(trimmed) ELSE trimmed
        localeHasConjuncts == LocaleRoot(locale) \in LANGS_WITH_CONJUNCT_CHARS
        charDescList ==
            IF localeHasConjuncts THEN getCharDescListFromText(text, locale)
            ELSE IF ~textIsNormalized /\ a.unicodeNormalization THEN splitAtCharacterBoundaries(text)
            ELSE [i \in 1..Len(text) |-> <<text[i]>>]
        c == [locale |-> locale, localeHasConjuncts |-> localeHasConjuncts,
              textLength |-> Len(trimmed), textIsNormalized |-> textIsNormalized,
              useCharacterDescriptions |-> a.useCharacterDescriptions,
              fallbackToCharIfNoDescription |-> a.fallbackToCharIfNoDescription,
              unicodeNormalization |-> a.unicodeNormalization,
              sayCapForCapitals |-> a.sayCapForCapitals, capPitchChange |-> a.capPitchChange,
              beepForCapitals |-> a.beepForCapitals,
              reportNormalizedForCharacterNavigation |-> a.reportNormalizedForCharacterNavigation,
              langChange |-> a.langChange]
    IN IF SpellsBlank(a.text) THEN [seq |-> <<TextItem(BlankMsg)>>, units |-> <<>>]
       ELSE SpellingLoop(c, charDescList, 1)

\* _getSpellingSpeechAddCharMode
RECURSIVE getSpellingSpeechAddCharMode(_, _)
getSpellingSpeechAddCharMode(seq, charMode) ==
    IF seq = <<>> THEN <<>>
    ELSE LET item == Head(seq)
             single == item.k = "text" /\ Len(item.s) = 1
             enable == item.k = "text" /\ single /\ ~charMode
             disable == item.k = "text" /\ ~single /\ charMode
             mode == IF enable THEN TRUE ELSE IF disable THEN FALSE ELSE charMode
         IN (IF enable THEN <<Item("charMode", "on", 1)>>
             ELSE IF disable THEN <<Item("charMode", "off", 0)>> ELSE <<>>)
            \o <<item>> \o getSpellingSpeechAddCharMode(Tail(seq), mode)

\* the pitch offset for capitals: the configured one if the synthesizer supports PitchCommand
CapPitchChanges == {0, 30}

SpellConfigs ==
    [sayCapForCapitals : BOOLEAN, capPitchChange : CapPitchChanges, beepForCapitals : BOOLEAN,
     unicodeNormalization : BOOLEAN, reportNormalizedForCharacterNavigation : BOOLEAN,
     useSpellingFunctionality : BOOLEAN, autoDialectSwitching : BOOLEAN, langChange : BOOLEAN]

SpellIdle ==
    [called |-> FALSE, text |-> <<>>, locale |-> "", useCharacterDescriptions |-> FALSE,
     conf |-> [sayCapForCapitals |-> FALSE, capPitchChange |-> 0, beepForCapitals |-> FALSE,
               unicodeNormalization |-> FALSE, reportNormalizedForCharacterNavigation |-> FALSE,
               useSpellingFunctionality |-> FALSE, autoDialectSwitching |-> FALSE, langChange |-> FALSE],
     inner |-> <<>>, units |-> <<>>, seq |-> <<>>]

\* the arguments getSpellingSpeech passes on
SpellingArgs(text, locale, useCharacterDescriptions, conf) ==
    [text |-> text, locale |-> locale, useCharacterDescriptions |-> useCharacterDescriptions,
     sayCapForCapitals |-> conf.sayCapForCapitals, capPitchChange |-> conf.capPitchChange,
     beepForCapitals |-> conf.beepForCapitals, fallbackToCharIfNoDescription |-> TRUE,
     unicodeNormalization |-> (~useCharacterDescriptions /\ conf.unicodeNormalization),
     reportNormalizedForCharacterNavigation |-> conf.reportNormalizedForCharacterNavigation,
     autoDialectSwitching |-> conf.autoDialectSwitching, langChange |-> conf.langChange]

getSpellingSpeech ==
    /\ ~spell.called
    /\ LET r == getSpellingSpeechWithoutCharMode(
                    SpellingArgs(spell.text, spell.locale, spell.useCharacterDescriptions, spell.conf))
           seq == IF spell.conf.useSpellingFunctionality
                  THEN getSpellingSpeechAddCharMode(r.seq, FALSE) ELSE r.seq
       IN spell' = [spell EXCEPT !.called = TRUE, !.inner = r.seq, !.units = r.units,
                       !.seq = <<Item("suppressNormalization", "on", 1)>> \o seq
                               \o <<Item("suppressNormalization", "off", 0)>>]
    /\ UNCHANGED <<objState, heap, gen, call, sel, indent, table, spk, scan, report, format, props, typed>>

----------------------------------------------------------------------------
(* getPropertiesSpeech: the table cell coordinates and the values kept in _speechState *)

\* largest row number and column number reported
MaxCell == 2

\* SpeechState: the property values kept from getPropertiesSpeech (0 is None)
SpeechState ==
    [oldTableID |-> 0, oldRowNumber |-> 0, oldRowSpan |-> 0,
     oldColumnNumber |-> 0, oldColumnSpan |-> 0]

TableIDs == {0, 1, 2}
CellSpans == {0, 2}

\* propertyValues of a table-cell report (0 or FALSE: the key is absent or None).
\* rowHeaderText, columnHeaderText and cellCoordsText are kept by whether they are given.
CellProperties ==
    {p \in [tableID : TableIDs, rowNumber : 0..MaxCell, columnNumber : 0..MaxCell,
            rowSpan : CellSpans, columnSpan : CellSpans,
            rowHeaderText : BOOLEAN, columnHeaderText : BOOLEAN,
            includeTableCellCoords : BOOLEAN, cellCoordsText : BOOLEAN,
            rowCount : {0}, columnCount : {0}] :
        p.cellCoordsText \/ p.rowNumber # 0 \/ p.columnNumber # 0}

\* propertyValues of the report made when a table is entered
TableProperties ==
    [tableID : TableIDs \ {0}, rowNumber : {0}, columnNumber : {0},
     rowSpan : {0}, columnSpan : {0}, rowHeaderText : {FALSE}, columnHeaderText : {FALSE},
     includeTableCellCoords : {TRUE}, cellCoordsText : {FALSE},
     rowCount : {0, 3}, columnCount : {2}]

\* _rowAndColumnCountText
rowAndColumnCountText(rowCount, columnCount) ==
    IF rowCount # 0 /\ columnCount # 0 THEN <<Item("rowAndColumnCount", "rows and columns", rowCount)>>
    ELSE IF columnCount # 0 THEN <<Item("rowAndColumnCount", "columns", columnCount)>>
    ELSE IF rowCount # 0 THEN <<Item("rowAndColumnCount", "rows", rowCount)>>
    ELSE <<>>

\* the table of the report is the table last reported; never so without a tableID
SameTableNever(tableID, oldTableID) == FALSE

SameTableWhenGiven(tableID, oldTableID) == tableID # 0

SameTable(tableID, oldTableID) == tableID # 0 /\ tableID = oldTableID

\* "if rowCount or columnCount": the caller is entering a table
EntersTableWithRows(rowCount, columnCount) == rowCount # 0

EntersTable(rowCount, columnCount) == rowCount # 0 \/ columnCount # 0

\* getPropertiesSpeech for propertyValues p that hold table values only, with
\* _speechState holding st: the sequence returned, the values kept afterwards,
\* and whether the call raised (rowNumber or columnNumber None in the sum of
\* the "through row ... column ..." phrase).
PropertiesSpeech(p, st) ==
    LET isCell == p.cellCoordsText \/ p.rowNumber # 0 \/ p.columnNumber # 0
        sameTable == SameTable(p.tableID, st.oldTableID)
        rowSpan == IF p.rowSpan # 0 THEN p.rowSpan ELSE 1
        columnSpan == IF p.columnSpan # 0 THEN p.columnSpan ELSE 1
        coords == p.includeTableCellCoords /\ ~p.cellCoordsText
        speakRow == /\ isCell /\ p.rowNumber # 0
                    /\ (~sameTable \/ p.rowNumber # st.oldRowNumber \/ rowSpan # st.oldRowSpan)
        speakColumn == /\ isCell /\ p.columnNumber # 0
                       /\ (~sameTable \/ p.columnNumber # st.oldColumnNumber
                           \/ columnSpan # st.oldColumnSpan)
        rowSeq ==
            IF ~speakRow THEN <<>>
            ELSE (IF p.rowHeaderText THEN <<Item("rowHeaderText", "row", p.rowNumber)>> ELSE <<>>)
                 \o (IF coords THEN <<Item("rowNumber", "row", p.rowNumber)>> ELSE <<>>)
                 \o (IF coords /\ rowSpan > 1 /\ columnSpan <= 1
                     THEN <<Item("through", "row", p.rowNumber + rowSpan - 1)>> ELSE <<>>)
        columnSeq ==
            IF ~speakColumn THEN <<>>
            ELSE (IF p.columnHeaderText THEN <<Item("columnHeaderText", "column", p.columnNumber)>> ELSE <<>>)
                 \o (IF coords THEN <<Item("columnNumber", "column", p.columnNumber)>> ELSE <<>>)
                 \o (IF coords /\ columnSpan > 1 /\ rowSpan <= 1
                     THEN <<Item("through", "column", p.columnNumber + columnSpan - 1)>> ELSE <<>>)
        bothSpan == isCell /\ coords /\ rowSpan > 1 /\ columnSpan > 1
        raised == bothSpan /\ (p.rowNumber = 0 \/ p.columnNumber = 0)
        entersTable == EntersTable(p.rowCount, p.columnCount)
        kept == [oldTableID |-> IF entersTable /\ ~raised THEN 0
                                ELSE IF isCell /\ p.tableID # 0 /\ ~sameTable THEN p.tableID
                                ELSE st.oldTableID,
                 oldRowNumber |-> IF speakRow THEN p.rowNumber ELSE st.oldRowNumber,
                 oldRowSpan |-> IF speakRow THEN rowSpan ELSE st.oldRowSpan,
                 oldColumnNumber |-> IF speakColumn THEN p.columnNumber ELSE st.oldColumnNumber,
                 oldColumnSpan |-> IF speakColumn THEN columnSpan ELSE st.oldColumnSpan]
    IN [raised |-> raised,
        state |-> kept,
        seq |-> IF raised THEN <<>>
                ELSE (IF p.includeTableCellCoords /\ p.cellCoordsText
                      THEN <<Item("cellCoordsText", "cell", 0)>> ELSE <<>>)
                     \o rowSeq \o columnSeq
                     \o (IF bothSpan THEN <<Item("through", "row and column", p.rowNumber + rowSpan - 1)>>
                         ELSE <<>>)
                     \o rowAndColumnCountText(p.rowCount, p.columnCount)]

NoProperties ==
    [tableID |-> 0, rowNumber |-> 0, columnNumber |-> 0, rowSpan |-> 0, columnSpan |-> 0,
     rowHeaderText |-> FALSE, columnHeaderText |-> FALSE,
     includeTableCellCoords |-> TRUE, cellCoordsText |-> FALSE, rowCount |-> 0, columnCount |-> 0]

\* what the next report is compared with: the table values of a report
TableValues(p) ==
    [tableID |-> p.tableID, rowNumber |-> p.rowNumber, columnNumber |-> p.columnNumber,
     rowSpan |-> p.rowSpan, columnSpan |-> p.columnSpan,
     isCell |-> (p.cellCoordsText \/ p.rowNumber # 0 \/ p.columnNumber # 0)]

\* state is _speechState; while a report is with its caller (reported), this holds
\* its propertyValues, seq and raised its result; last holds the table values of
\* the report before it.  Under SpecTableEntry lastCell holds the table values of
\* the last table-cell report before this one and entered tells that the report
\* before this one gave a row count or a column count.
TableIdle ==
    [state |-> SpeechState, last |-> TableValues(NoProperties), reported |-> FALSE,
     this |-> NoProperties, seq |-> <<>>, raised |-> FALSE,
     lastCell |-> TableValues(NoProperties), entered |-> FALSE]

getPropertiesSpeech ==
    /\ ~table.reported
    /\ \E p \in CellProperties \cup TableProperties :
          \E r \in {PropertiesSpeech(p, table.state)} :
              table' = [table EXCEPT !.state = r.state, !.reported = TRUE, !.this = p,
                                     !.seq = r.seq, !.raised = r.raised]
    /\ UNCHANGED <<objState, heap, gen, call, sel, spell, indent, spk, scan, report, format, props, typed>>

\* the caller has spoken the report (or seen it fail)
ReleaseProperties ==
    /\ table.reported
    /\ table' = [TableIdle EXCEPT !.state = table.state, !.last = TableValues(table.this)]
    /\ UNCHANGED <<objState, heap, gen, call, sel, spell, indent, spk, scan, report, format, props, typed>>


\* getControlFieldSpeech for the start of a table: attrs gives the table id and
\* may give the row count and the column count
TableStarts ==
    {[NoProperties EXCEPT !.tableID = id, !.rowCount = rows, !.columnCount = columns] :
        id \in TableIDs \ {0}, rows \in {0, 3}, columns \in {0, 2}}

\* getControlFieldSpeech for the start of a table cell: attrs gives the table id and
\* may give the numbers, the spans and the header texts
TableCells ==
    {[NoProperties EXCEPT !.tableID = id, !.rowNumber = row, !.columnNumber = column,
                          !.rowSpan = span, !.rowHeaderText = rowHeader,
                          !.columnHeaderText = columnHeader, !.includeTableCellCoords = coords] :
        id \in TableIDs \ {0}, row \in 0..MaxCell, column \in 0..MaxCell, span \in CellSpans,
        rowHeader \in BOOLEAN, columnHeader \in BOOLEAN, coords \in BOOLEAN}

\* getControlFieldSpeech, "start_addedToControlFieldStack" of a table
tableStart ==
    /\ ~table.reported
    /\ \E p \in TableStarts :
          \E r \in {PropertiesSpeech(p, table.state)} :
              table' = [table EXCEPT !.state = r.state, !.reported = TRUE, !.this = p,
                                     !.seq = r.seq, !.raised = r.raised]
    /\ UNCHANGED <<objState, heap, gen, call, sel, spell, indent, spk, scan, report, format, props, typed>>

\* getControlFieldSpeech, the start of a table cell
tableCell ==
    /\ ~table.reported
    /\ \E p \in TableCells :
          \E r \in {PropertiesSpeech(p, table.state)} :
              table' = [table EXCEPT !.state = r.state, !.reported = TRUE, !.this = p,
                                     !.seq = r.seq, !.raised = r.raised]
    /\ UNCHANGED <<objState, heap, gen, call, sel, spell, indent, spk, scan, report, format, props, typed>>

\* the caller has spoken what getControlFieldSpeech returned
releaseTableField ==
    /\ table.reported
    /\ table' = [TableIdle EXCEPT
                    !.state = table.state,
                    !.lastCell = IF TableValues(table.this).isCell THEN TableValues(table.this)
                                 ELSE table.lastCell,
                    !.entered = \E i \in 1..Len(table.seq) : table.seq[i].k = "rowAndColumnCount"]
    /\ UNCHANGED <<objState, heap, gen, call, sel, spell, indent, spk, scan, report, format, props, typed>>

----------------------------------------------------------------------------
(* getPropertiesSpeech: the name, the role and the value *)

\* roles of the reports; UNKNOWN is the role of a report that gives none
ReportRoles == {"PANE", "MENUITEM", "LINK", "BUTTON", "MATH", "CHARTELEMENT"}

\* controlTypes.silentRolesOnFocus and controlTypes.silentValuesForRoles,
\* restricted to the roles of the model
silentRolesOnFocus == {"PANE", "MENUITEM", "UNKNOWN"}
silentValuesForRoles == {"LINK", "MENUITEM"}

ReportReasons == {"FOCUS", "QUICKNAV", "CARET", "SAYALL", "QUERY", "CHANGE"}

\* propertyValues: name, roleText, value and cellCoordsText by whether they are
\* given and not empty; roleKey is the key the role is given under ("none": no role)
ObjectProperties ==
    {p \in [name : BOOLEAN, roleKey : {"role", "_role", "none"}, role : ReportRoles \cup {"UNKNOWN"},
            roleText : BOOLEAN, value : BOOLEAN, cellCoordsText : BOOLEAN,
            rowNumber : 0..1, columnNumber : 0..1] :
        p.roleKey = "none" <=> p.role = "UNKNOWN"}

\* the reasons for which a role of silentRolesOnFocus is not spoken next to other content
QuietReasonFocusOnly(reason) == reason = "FOCUS"

QuietReason(reason) == reason \in {"SAYALL", "CARET", "FOCUS", "QUICKNAV"}

\* the value that is spoken: none for the roles of silentValuesForRoles
SpokenValue(p) == p.value /\ p.role \notin silentValuesForRoles

\* "name or value or cellCoordsText or rowNumber or columnNumber"
OtherContent(p) ==
    p.name \/ SpokenValue(p) \/ p.cellCoordsText \/ p.rowNumber # 0 \/ p.columnNumber # 0

\* the condition under which the role is appended
SpeaksRole(p, reason) ==
    /\ p.roleKey = "role" /\ p.role # "CHARTELEMENT"
    /\ \/ p.roleText
       \/ ~QuietReason(reason)
       \/ ~OtherContent(p)
       \/ p.role \notin silentRolesOnFocus
    /\ p.role # "MATH" \/ reason \notin {"CARET", "SAYALL"}

\* the table values of a report that gives no table id, spans, headers or counts
CellOf(p) ==
    [NoProperties EXCEPT !.rowNumber = p.rowNumber, !.columnNumber = p.columnNumber,
                         !.cellCoordsText = p.cellCoordsText]

\* getPropertiesSpeech(reason, **p), with _speechState holding st
ObjectSpeech(p, reason, st) ==
    LET cell == PropertiesSpeech(CellOf(p), st)
    IN [state |-> cell.state,
        seq |-> (IF p.name THEN <<Item("name", "name", 0)>> ELSE <<>>)
                \o (IF SpeaksRole(p, reason)
                    THEN <<Item("role", IF p.roleText THEN "roleText" ELSE p.role, 0)>> ELSE <<>>)
                \o (IF SpokenValue(p) THEN <<Item("value", "value", 0)>> ELSE <<>>)
                \o cell.seq]

ReportIdle ==
    [called |-> FALSE, reason |-> "QUERY",
     this |-> [name |-> FALSE, roleKey |-> "none", role |-> "UNKNOWN", roleText |-> FALSE,
               value |-> FALSE, cellCoordsText |-> FALSE, rowNumber |-> 0, columnNumber |-> 0],
     seq |-> <<>>]

reportProperties ==
    /\ ~report.called
    /\ \E p \in ObjectProperties, reason \in ReportReasons :
          \E r \in {ObjectSpeech(p, reason, table.state)} :
              /\ report' = [called |-> TRUE, reason |-> reason, this |-> p, seq |-> r.seq]
              /\ table' = [table EXCEPT !.state = r.state]
    /\ UNCHANGED <<objState, heap, gen, call, sel, spell, indent, spk, scan, format, props, typed>>

\* the caller has spoken the report
releaseReport ==
    /\ report.called
    /\ report' = ReportIdle
    /\ UNCHANGED <<objState, heap, gen, call, sel, spell, indent, table, spk, scan, format, props, typed>>

----------------------------------------------------------------------------
(* speakTypedCharacters: the echo of typed characters and typed words.     *)
(* Two runs are carried side by side: they get the same calls, the same    *)
(* configuration and the same clock, and the same character wherever       *)
(* typing is not protected.                                                *)

\* the longest word kept in _curWordChars
MaxWord == 2

\* the largest _suppressSpeakTypedCharactersNumber
MaxSuppress == 1

\* the characters typed: two letters, space, "!", backspace, U+007F and carriage return
TypedChars == {"a", "b", "sp", "excl", "bs", "del", "cr"}

\* ord(ch)
Ord(ch) ==
    CASE ch = "a" -> 97 [] ch = "b" -> 98 [] ch = "sp" -> 32 [] ch = "excl" -> 33
      [] ch = "bs" -> 8 [] ch = "del" -> 127 [] ch = "cr" -> 13 [] OTHER -> 42

\* unicodedata.category(ch)[0] in "LMN"
IsLetterMarkNumber(ch) == ch \in {"a", "b"}

PROTECTED_CHAR == "*"
FIRST_NONCONTROL_CHAR == 32

TypingEchoModes == {"OFF", "EDIT_CONTROLS", "ALWAYS"}

\* realChar
RealCharUnmasked(ch, typingIsProtected) == ch

RealChar(ch, typingIsProtected) == IF typingIsProtected THEN PROTECTED_CHAR ELSE ch

\* typingEchoMode is ALWAYS, or EDIT_CONTROLS with an editable focus
EchoesIn(typingEchoMode, focusEditable) ==
    \/ typingEchoMode = "ALWAYS"
    \/ typingEchoMode = "EDIT_CONTROLS" /\ focusEditable

\* speakTypedCharacters(ch) with _curWordChars = buf and
\* _suppressSpeakTypedCharactersNumber = number; inTime: the suppression has not timed out
SpeakTyped(ch, typingIsProtected, buf, number, inTime, speakTypedWords, speakTypedChars, focusEditable) ==
    LET realChar == RealChar(ch, typingIsProtected)
        endsWord == ~IsLetterMarkNumber(ch) /\ ch # "bs" /\ Len(buf) > 0
        curWordChars == IF IsLetterMarkNumber(ch) THEN Append(buf, realChar)
                        ELSE IF ch = "bs" THEN SubSeq(buf, 1, Len(buf) - 1)
                        ELSE <<>>
        typedWord == IF /\ endsWord
                        /\ speakTypedWords # "OFF" /\ ~typingIsProtected
                        /\ EchoesIn(speakTypedWords, focusEditable)
                     THEN <<[k |-> "text", s |-> buf]>>
                     ELSE <<>>
        suppress == number > 0 /\ inTime
        left == IF number > 0 /\ inTime THEN number - 1 ELSE 0
        echo == IF /\ ~suppress
                   /\ speakTypedChars # "OFF" /\ Ord(ch) >= FIRST_NONCONTROL_CHAR
                   /\ EchoesIn(speakTypedChars, focusEditable)
                THEN <<[k |-> "spelling", s |-> <<realChar>>]>>
                ELSE <<>>
    IN IF ~IsLetterMarkNumber(ch) /\ ch # "bs" /\ ch = "del"
       THEN [buf |-> buf, number |-> number, spoken |-> <<>>]
       ELSE [buf |-> curWordChars, number |-> left, spoken |-> typedWord \o echo]

\* the kind of a typed character, as speakTypedCharacters tells characters apart
TypedKind(ch) ==
    IF IsLetterMarkNumber(ch) THEN "word"
    ELSE IF ch = "bs" THEN "backspace"
    ELSE IF ch = "del" THEN "delete"
    ELSE IF Ord(ch) >= FIRST_NONCONTROL_CHAR THEN "printable"
    ELSE "control"

\* ch, buf, number, spoken: one value for each of the two runs;
\* sameKind: the protected characters of the two runs were of the same kind so far
TypedIdle ==
    [called |-> FALSE, protected |-> FALSE, ch |-> <<"sp", "sp">>, buf |-> << <<>>, <<>> >>,
     number |-> <<0, 0>>, spoken |-> << <<>>, <<>> >>, sameKind |-> TRUE]

\* speakTypedCharacters(ch), in both runs
speakTypedCharacters ==
    /\ \E typingIsProtected \in BOOLEAN, ch1 \in TypedChars, ch2 \in TypedChars,
          inTime \in BOOLEAN, speakTypedWords \in TypingEchoModes,
          speakTypedChars \in TypingEchoModes, focusEditable \in BOOLEAN :
          /\ ~typingIsProtected => ch1 = ch2
          /\ IsLetterMarkNumber(ch1) => Len(typed.buf[1]) < MaxWord
          /\ IsLetterMarkNumber(ch2) => Len(typed.buf[2]) < MaxWord
          /\ \E r1 \in {SpeakTyped(ch1, typingIsProtected, typed.buf[1], typed.number[1], inTime,
                                   speakTypedWords, speakTypedChars, focusEditable)},
                r2 \in {SpeakTyped(ch2, typingIsProtected, typed.buf[2], typed.number[2], inTime,
                                   speakTypedWords, speakTypedChars, focusEditable)} :
                typed' = [called |-> TRUE, protected |-> typingIsProtected, ch |-> <<ch1, ch2>>,
                          buf |-> <<r1.buf, r2.buf>>, number |-> <<r1.number, r2.number>>,
                          spoken |-> <<r1.spoken, r2.spoken>>,
                          sameKind |-> typed.sameKind /\ TypedKind(ch1) = TypedKind(ch2)]
    /\ UNCHANGED <<objState, heap, gen, call, sel, spell, indent, table, spk, scan, report, format, props>>

\* _suppressSpeakTypedCharacters(1), in both runs
suppressSpeakTypedCharacters ==
    /\ typed.number[1] < MaxSuppress /\ typed.number[2] < MaxSuppress
    /\ typed' = [typed EXCEPT !.called = FALSE, !.spoken = << <<>>, <<>> >>,
                              !.number = <<typed.number[1] + 1, typed.number[2] + 1>>]
    /\ UNCHANGED <<objState, heap, gen, call, sel, spell, indent, table, spk, scan, report, format, props>>

----------------------------------------------------------------------------
(* getObjectPropertiesSpeech: the property cache of the object *)

\* the texts of a name or a description ("" is None or the empty string) and
\* "absent": the dict has no such key
ObjTexts == {"", "a", "b"}
Absent == "absent"

\* the states of the objects, in the order they are labelled
ObjStates == <<"CHECKED", "BUSY">>
ObjStateSet == {ObjStates[i] : i \in 1..Len(ObjStates)}

\* the object: obj.name, obj.description, obj.states
Objects == [name : ObjTexts, description : ObjTexts, states : SUBSET ObjStateSet]

\* allowedProperties: the properties asked for
Allowed == [name : BOOLEAN, description : BOOLEAN, states : BOOLEAN]

ObjReasons == {"FOCUS", "QUERY", "CHANGE", "ONLYCACHE"}

\* a dict of property values; hasStates: the dict has the key "states"
NoValues ==
    [name |-> Absent, description |-> Absent, hasStates |-> FALSE, states |-> {}, negativeStates |-> {}]

\* the loop over allowedProperties: the values fetched from the object
Fetched(obj, allowed) ==
    [name |-> IF allowed.name THEN obj.name ELSE Absent,
     description |-> IF allowed.description THEN obj.description ELSE Absent,
     hasStates |-> allowed.states,
     states |-> IF allowed.states THEN obj.states ELSE {},
     negativeStates |-> {}]

\* the description has a value, is equal to the name, and the reason is not CHANGE
DropsDescriptionForAnyReason(new, reason) ==
    new.description \notin {Absent, ""} /\ new.name = new.description

DropsDescription(new, reason) ==
    new.description \notin {Absent, ""} /\ new.name = new.description /\ reason # "CHANGE"

WithoutDuplicate(new, reason) ==
    IF DropsDescription(new, reason) THEN [new EXCEPT !.description = Absent] ELSE new

\* cachedPropertyValues.update(newPropertyValues)
UpdatedCache(old, new) ==
    [name |-> IF new.name # Absent THEN new.name ELSE old.name,
     description |-> IF new.description # Absent THEN new.description ELSE old.description,
     hasStates |-> old.hasStates \/ new.hasStates,
     states |-> IF new.hasStates THEN new.states ELSE old.states,
     negativeStates |-> {}]

\* reason CHANGE: the values that are in the old cache and have not changed are
\* deleted; of changed states the added ones and the removed ones are kept
ChangedOnlyNothingDeleted(new, old) == new

ChangedOnly(new, old) ==
    [name |-> IF old.name # Absent /\ new.name = old.name THEN Absent ELSE new.name,
     description |-> IF old.description # Absent /\ new.description = old.description
                     THEN Absent ELSE new.description,
     hasStates |-> new.hasStates /\ ~(old.hasStates /\ new.states = old.states),
     states |-> IF new.hasStates /\ old.hasStates THEN new.states \ old.states ELSE new.states,
     negativeStates |-> IF new.hasStates /\ old.hasStates THEN old.states \ new.states ELSE {}]

\* controlTypes.processAndLabelStates: a label for every state, a negative label
\* for every negative state (n is 1 for the positive label, 0 for the negative one)
LabelStates(states, negativeStates) ==
    [i \in 1..Len(SelectSeq(ObjStates, LAMBDA x : x \in states)) |->
        Item("state", SelectSeq(ObjStates, LAMBDA x : x \in states)[i], 1)]
    \o [i \in 1..Len(SelectSeq(ObjStates, LAMBDA x : x \in negativeStates)) |->
        Item("state", SelectSeq(ObjStates, LAMBDA x : x \in negativeStates)[i], 0)]

\* getPropertiesSpeech(reason, **values) for a name, states and a description
\* (the role is given as _role and is not spoken)
NamedSpeech(values) ==
    (IF values.name \notin {Absent, ""} THEN <<Item("name", values.name, 0)>> ELSE <<>>)
    \o (IF values.hasStates \/ values.negativeStates # {}
        THEN LabelStates(values.states, values.negativeStates) ELSE <<>>)
    \o (IF values.description \notin {Absent, ""}
        THEN <<Item("description", values.description, 0)>> ELSE <<>>)

\* cache is obj._speakObjectPropertiesCache; while a call is with its caller
\* (called), old is the cache before the call, locked whether the object was
\* below the lock screen, seq the result
PropsIdle ==
    [cache |-> NoValues, called |-> FALSE, locked |-> FALSE, old |-> NoValues,
     obj |-> [name |-> "", description |-> "", states |-> {}],
     allowed |-> [name |-> FALSE, description |-> FALSE, states |-> FALSE],
     reason |-> "QUERY", seq |-> <<>>]

getObjectPropertiesSpeech ==
    /\ ~props.called
    /\ \E obj \in Objects, allowed \in Allowed, reason \in ObjReasons, locked \in BOOLEAN :
          LET new == WithoutDuplicate(Fetched(obj, allowed), reason)
              spoken == IF reason = "CHANGE" THEN ChangedOnly(new, props.cache) ELSE new
          IN props' = [cache |-> IF locked THEN props.cache ELSE UpdatedCache(props.cache, new),
                       called |-> TRUE, locked |-> locked, old |-> props.cache,
                       obj |-> obj, allowed |-> allowed, reason |-> reason,
                       seq |-> IF locked \/ reason = "ONLYCACHE" THEN <<>> ELSE NamedSpeech(spoken)]
    /\ UNCHANGED <<objState, heap, gen, call, sel, spell, indent, table, spk, scan, report, format, typed>>

\* the caller has spoken the properties
releaseProperties ==
    /\ props.called
    /\ props' = [PropsIdle EXCEPT !.cache = props.cache]
    /\ UNCHANGED <<objState, heap, gen, call, sel, spell, indent, table, spk, scan, report, format, typed>>

----------------------------------------------------------------------------
(* getFormatFieldSpeech: the table, the colors and the attributes that are on or off *)

\* attrs["table-info"]: given is FALSE when there is none
NoTableInfo == [given |-> FALSE, id |-> 0, row |-> 0, col |-> 0]

TableInfos == {NoTableInfo} \cup [given : {TRUE}, id : 1..2, row : 1..MaxCell, col : 1..MaxCell]

\* "" is None: the color is not given
Colors == {"", "red", "blue"}
BackgroundColors == {"", "white", "black"}
BackgroundColors2 == {"", "grey"}

\* the attributes that are on or off, in the order they are reported, and the
\* key of formatConfig each is reported under
BinaryAttributes ==
    <<"marked", "strong", "emphasised", "bold", "italic", "strikethrough", "underline", "hidden">>

ReportedUnder(a) ==
    CASE a = "marked" -> "reportHighlight"
      [] a \in {"strong", "emphasised"} -> "reportEmphasis"
      [] OTHER -> "fontAttributeReporting"

BinaryNames == {BinaryAttributes[i] : i \in 1..Len(BinaryAttributes)}

\* the value of such an attribute: "absent" (None, no key), "no" (False), "yes" (True)
BinaryValues == {"absent", "no", "yes"}

NoAttrs ==
    [tableInfo |-> NoTableInfo, pageNumber |-> 0, sectionNumber |-> 0,
     textColumnCount |-> 0, textColumnNumber |-> 0,
     color |-> "", backgroundColor |-> "", backgroundColor2 |-> "",
     binary |-> [a \in BinaryNames |-> "absent"]]

\* page, section and text column values (0 is None: the key is absent)
MaxPage == 1
MaxTextColumns == 2
PageValues == (0..MaxPage) \X (0..1) \X (0..MaxTextColumns) \X (0..1)

\* the format fields of the model: a table cell, a place on a page, colors, or
\* one attribute on or off
FormatAttrs ==
    {[NoAttrs EXCEPT !.tableInfo = t] : t \in TableInfos}
    \cup {[NoAttrs EXCEPT !.pageNumber = v[1], !.sectionNumber = v[2],
                          !.textColumnCount = v[3], !.textColumnNumber = v[4]] : v \in PageValues}
    \cup {[NoAttrs EXCEPT !.color = c[1], !.backgroundColor = c[2], !.backgroundColor2 = c[3]] :
              c \in Colors \X BackgroundColors \X BackgroundColors2}
    \cup {[NoAttrs EXCEPT !.binary[b[1]] = b[2]] : b \in BinaryNames \X BinaryValues}

FormatConfigs ==
    [reportTables : BOOLEAN, reportPage : BOOLEAN, reportColor : BOOLEAN, reportHighlight : BOOLEAN,
     reportEmphasis : BOOLEAN, fontAttributeReporting : BOOLEAN]

\* getTableInfoSpeech(tableInfo, oldTableInfo)
getTableInfoSpeech(tableInfo, oldTableInfo) ==
    IF ~tableInfo.given /\ ~oldTableInfo.given THEN <<>>
    ELSE IF ~tableInfo.given THEN <<Item("outOfTable", "out of table", 0)>>
    ELSE LET newTable == ~oldTableInfo.given \/ tableInfo.id # oldTableInfo.id
         IN (IF newTable THEN <<Item("tableWith", "table with", tableInfo.id)>> ELSE <<>>)
            \o (IF tableInfo.col # oldTableInfo.col
                THEN <<Item("tableColumn", "column", tableInfo.col)>> ELSE <<>>)
            \o (IF tableInfo.row # oldTableInfo.row
                THEN <<Item("tableRow", "row", tableInfo.row)>> ELSE <<>>)

\* "textColumnCount and int(textColumnCount) <= 1 and oldTextColumnCount == None"
FirstSingleColumnNever(textColumnCount, oldTextColumnCount) == FALSE

FirstSingleColumn(textColumnCount, oldTextColumnCount) ==
    textColumnCount # 0 /\ textColumnCount <= 1 /\ oldTextColumnCount = 0

\* the phrases under formatConfig["reportPage"]: s says which text column phrase
PageSpeech(attrs, attrsCache) ==
    (IF attrs.pageNumber # 0 /\ attrs.pageNumber # attrsCache.pageNumber
     THEN <<Item("page", "page", attrs.pageNumber)>> ELSE <<>>)
    \o (IF attrs.sectionNumber # 0 /\ attrs.sectionNumber # attrsCache.sectionNumber
        THEN <<Item("section", "section", attrs.sectionNumber)>> ELSE <<>>)
    \o (IF /\ \/ attrs.textColumnNumber # 0 /\ attrs.textColumnNumber # attrsCache.textColumnNumber
              \/ attrs.textColumnCount # 0 /\ attrs.textColumnCount # attrsCache.textColumnCount
           /\ ~FirstSingleColumn(attrs.textColumnCount, attrsCache.textColumnCount)
        THEN (IF attrs.textColumnNumber # 0 /\ attrs.textColumnCount # 0
              THEN <<Item("textColumn", "column of", attrs.textColumnCount)>>
              ELSE IF attrs.textColumnCount # 0
              THEN <<Item("textColumn", "columns", attrs.textColumnCount)>>
              ELSE IF attrs.textColumnNumber # 0
              THEN <<Item("textColumn", "column", attrs.textColumnNumber)>>
              ELSE <<>>)
        ELSE <<>>)

\* "backgroundColor != oldBackgroundColor or backgroundColor2 != oldBackgroundColor2"
BgColorChangedFirstOnly(attrs, attrsCache) == attrs.backgroundColor # attrsCache.backgroundColor

BgColorChanged(attrs, attrsCache) ==
    \/ attrs.backgroundColor # attrsCache.backgroundColor
    \/ attrs.backgroundColor2 # attrsCache.backgroundColor2

\* the text of the background: "Y", or "Y to Z" with a second background color
BgColorText(attrs) ==
    IF attrs.backgroundColor2 # "" THEN <<attrs.backgroundColor, attrs.backgroundColor2>>
    ELSE <<attrs.backgroundColor>>

\* the color phrase: n is 2 for "X on Y", 1 for "X", 0 for "Y background"
ColorSpeech(attrs, attrsCache) ==
    LET bgColorChanged == BgColorChanged(attrs, attrsCache)
    IN IF /\ attrs.color # "" /\ attrs.backgroundColor # ""
          /\ attrs.color # attrsCache.color /\ bgColorChanged
       THEN <<Item("colorOn", <<attrs.color>> \o BgColorText(attrs), 2)>>
       ELSE IF attrs.color # "" /\ attrs.color # attrsCache.color
       THEN <<Item("color", <<attrs.color>>, 1)>>
       ELSE IF attrs.backgroundColor # "" /\ bgColorChanged
       THEN <<Item("background", BgColorText(attrs), 0)>>
       ELSE <<>>

\* "(bold or oldBold is not None) and bold != oldBold", and the phrase: n is 1
\* for the positive phrase ("bold"), 0 for the negative one ("no bold")
BinarySpeech(a, new, old) ==
    IF (new = "yes" \/ old # "absent") /\ new # old
    THEN <<Item("attribute", a, IF new = "yes" THEN 1 ELSE 0)>>
    ELSE <<>>

RECURSIVE BinarySpeechFrom(_, _, _, _)
BinarySpeechFrom(i, attrs, attrsCache, formatConfig) ==
    IF i > Len(BinaryAttributes) THEN <<>>
    ELSE LET a == BinaryAttributes[i]
         IN (IF formatConfig[ReportedUnder(a)]
             THEN BinarySpeech(a, attrs.binary[a], attrsCache.binary[a]) ELSE <<>>)
            \o BinarySpeechFrom(i + 1, attrs, attrsCache, formatConfig)

\* getFormatFieldSpeech(attrs, attrsCache, formatConfig) for the attributes of the model
FormatFieldSpeech(attrs, attrsCache, formatConfig) ==
    (IF formatConfig.reportTables
     THEN getTableInfoSpeech(attrs.tableInfo, attrsCache.tableInfo) ELSE <<>>)
    \o (IF formatConfig.reportPage THEN PageSpeech(attrs, attrsCache) ELSE <<>>)
    \o (IF formatConfig.reportColor THEN ColorSpeech(attrs, attrsCache) ELSE <<>>)
    \o BinarySpeechFrom(1, attrs, attrsCache, formatConfig)

\* attrsCache after attrsCache.clear() and attrsCache.update(attrs)
UpdatedWithoutClear(attrsCache, attrs) ==
    [tableInfo |-> IF attrs.tableInfo.given THEN attrs.tableInfo ELSE attrsCache.tableInfo,
     pageNumber |-> IF attrs.pageNumber # 0 THEN attrs.pageNumber ELSE attrsCache.pageNumber,
     sectionNumber |-> IF attrs.sectionNumber # 0 THEN attrs.sectionNumber
                       ELSE attrsCache.sectionNumber,
     textColumnCount |-> IF attrs.textColumnCount # 0 THEN attrs.textColumnCount
                         ELSE attrsCache.textColumnCount,
     textColumnNumber |-> IF attrs.textColumnNumber # 0 THEN attrs.textColumnNumber
                          ELSE attrsCache.textColumnNumber,
     color |-> IF attrs.color # "" THEN attrs.color ELSE attrsCache.color,
     backgroundColor |-> IF attrs.backgroundColor # "" THEN attrs.backgroundColor
                         ELSE attrsCache.backgroundColor,
     backgroundColor2 |-> IF attrs.backgroundColor2 # "" THEN attrs.backgroundColor2
                          ELSE attrsCache.backgroundColor2,
     binary |-> [a \in BinaryNames |-> IF attrs.binary[a] # "absent" THEN attrs.binary[a]
                                       ELSE attrsCache.binary[a]]]

UpdatedAttrsCache(attrsCache, attrs) == attrs

\* cache is the attrsCache dict; while a call is with its caller (called), old is
\* the cache the call was given, this its attrs, conf its formatConfig, seq its result;
\* last is the attrs of the call before
FormatIdle ==
    [called |-> FALSE, cache |-> NoAttrs, old |-> NoAttrs, this |-> NoAttrs, last |-> NoAttrs,
     conf |-> [reportTables |-> TRUE, reportPage |-> TRUE, reportColor |-> TRUE, reportHighlight |-> TRUE,
               reportEmphasis |-> TRUE, fontAttributeReporting |-> TRUE],
     seq |-> <<>>]

\* a call; attrsCache.clear() and attrsCache.update(attrs) at its end
formatFieldSpeech ==
    /\ ~format.called
    /\ \E attrs \in FormatAttrs, formatConfig \in FormatConfigs :
          format' = [called |-> TRUE, cache |-> UpdatedAttrsCache(format.cache, attrs),
                  old |-> format.cache, this |-> attrs, last |-> format.last,
                  conf |-> formatConfig,
                  seq |-> FormatFieldSpeech(attrs, format.cache, formatConfig)]
    /\ UNCHANGED <<objState, heap, gen, call, sel, spell, indent, table, spk, scan, report, props, typed>>

\* the caller has spoken the phrases
releaseFormat ==
    /\ format.called
    /\ format' = [FormatIdle EXCEPT !.cache = format.cache, !.last = format.this]
    /\ UNCHANGED <<objState, heap, gen, call, sel, spell, indent, table, spk, scan, report, props, typed>>

----------------------------------------------------------------------------
(* getTextInfoSpeech: control fields, format fields and the text with fields *)

\* deepest control-field stack, and most tokens after the initial fields
MaxStack == 2
MaxCmds == 2

\* A ControlField, by the attributes the speech code reads: uniqueID (0: the
\* field has none), name, role, its presentation category (what
\* field.getPresentationCategory answers), isBlock, and whether its states
\* hold CLICKABLE.
ControlField(uniqueID, name, role, presCat, isBlock, clickable) ==
    [uniqueID |-> uniqueID, name |-> name, role |-> role, presCat |-> presCat,
     isBlock |-> isBlock, clickable |-> clickable]

ListField == ControlField(1, "x", "LIST", "container", TRUE, FALSE)
ListFieldRenamed == ControlField(1, "y", "LIST", "container", TRUE, FALSE)
LinkField == ControlField(0, "x", "LINK", "singleLine", FALSE, TRUE)
SectionField == ControlField(2, "x", "SECTION", "layout", FALSE, TRUE)
NoField == ControlField(0, "", "NONE", "none", FALSE, FALSE)

ControlFields == {ListField, ListFieldRenamed, LinkField, SectionField}

\* A control-field stack holds each node of the document at most once.
ControlFieldStacks ==
    {st \in UNION {[1..n -> ControlFields] : n \in 0..MaxStack} :
        \A i, j \in 1..Len(st) : i # j => st[i].role # st[j].role}

\* A FormatField, by its "marked" attribute (0: the key is absent, 1: True).
FormatField(marked) == [marked |-> marked]
EmptyFormat == FormatField(0)
FormatFields == {FormatField(0), FormatField(1)}

Reasons == {"FOCUS", "QUICKNAV", "CARET", "SAYALL"}
FocusReasons == {"FOCUS", "QUICKNAV"}
Units == {"character", "line"}

\* The tokens of getTextWithFields after the initial fields: text and field commands.
TextToken(s) == [cmd |-> "text", s |-> s, field |-> NoField, format |-> EmptyFormat]
ControlStart(f) == [cmd |-> "controlStart", s |-> <<>>, field |-> f, format |-> EmptyFormat]
ControlEnd == [cmd |-> "controlEnd", s |-> <<>>, field |-> NoField, format |-> EmptyFormat]
FormatChange(fld) == [cmd |-> "formatChange", s |-> <<>>, field |-> NoField, format |-> fld]
\* a FieldCommand whose command is none of controlStart, controlEnd, formatChange
UnknownCommand == [cmd |-> "unknown", s |-> <<>>, field |-> NoField, format |-> EmptyFormat]

Tokens ==
    {TextToken(<<"a">>), TextToken(<<"sp", "a", "b">>), ControlEnd}
    \cup {ControlStart(f) : f \in {LinkField, SectionField}}
    \cup {FormatChange(fld) : fld \in FormatFields}

\* the stack after the tokens, or BadStack when a controlEnd finds no open field
\* or a controlStart opens a node that is open already
BadStack == <<NoField>>

RECURSIVE StackAfter(_, _)
StackAfter(stack, tokens) ==
    IF tokens = <<>> THEN stack
    ELSE LET t == Head(tokens)
         IN IF t.cmd = "controlEnd"
            THEN (IF stack = <<>> \/ stack = BadStack THEN BadStack
                  ELSE StackAfter(SubSeq(stack, 1, Len(stack) - 1), Tail(tokens)))
            ELSE IF t.cmd = "controlStart"
            THEN (IF stack = BadStack \/ \E i \in 1..Len(stack) : stack[i].role = t.field.role THEN BadStack
                  ELSE StackAfter(Append(stack, t.field), Tail(tokens)))
            ELSE StackAfter(stack, Tail(tokens))

\* What is left of textWithFields once the leading controlStart / formatChange
\* commands (the initial fields) and the trailing controlEnd commands are removed.
TextWithFields(initialStack) ==
    {b \in UNION {[1..n -> Tokens] : n \in 0..MaxCmds} :
        /\ b # <<>> => (b[1].cmd \notin {"controlStart", "formatChange"} /\ b[Len(b)].cmd # "controlEnd")
        /\ StackAfter(initialStack, b) # BadStack
        /\ Len(StackAfter(initialStack, b)) <= MaxStack}

----------------------------------------------------------------------------
(* SpeakTextInfoState and the format dicts *)

DictIds == {1, 2}

\* obj._speakTextInfoState: absent, or a state whose formatFieldAttributesCache
\* is a reference to a dict
NoState == [exists |-> FALSE, stack |-> <<>>, fmt |-> 0, indent |-> <<>>]

SpeakTextInfoState(stack, fmt, indentation) ==
    [exists |-> TRUE, stack |-> stack, fmt |-> fmt, indent |-> indentation]

\* SpeakTextInfoState.__init__(obj): the stack is copied, the format dict is
\* the old state's own dict; without an old state a new dict is made
NewDictId(state) == IF state.exists /\ state.fmt = 1 THEN 2 ELSE 1

LocalState(state) ==
    IF state.exists THEN state ELSE SpeakTextInfoState(<<>>, NewDictId(state), <<>>)

\* the cached snapshot as a reader of the object sees it
Snapshot(state, h) ==
    IF state.exists
    THEN [exists |-> TRUE, stack |-> state.stack, format |-> h[state.fmt], indent |-> state.indent]
    ELSE [exists |-> FALSE, stack |-> <<>>, format |-> EmptyFormat, indent |-> <<>>]

\* a dict nothing refers to any more is gone
Collect(h, refs) == [d \in DictIds |-> IF d \in refs THEN h[d] ELSE EmptyFormat]

GenIdle == [pc |-> "idle", stack |-> <<>>, fmt |-> 0, indent |-> <<>>]

CallIdle ==
    [outcome |-> "none", reason |-> "CARET", unit |-> "line", failAt |-> "none",
     P |-> <<>>, N |-> <<>>, newFormat |-> EmptyFormat, body |-> <<>>,
     L |-> 0, seq |-> <<>>, yielded |-> <<>>,
     final |-> <<>>, finalFormat |-> EmptyFormat, finalIndent |-> <<>>,
     reportClickable |-> TRUE, countInStack |-> TRUE,
     pre |-> Snapshot(NoState, <<>>)]

----------------------------------------------------------------------------
(* getControlFieldSpeech, getFormatFieldSpeech and the stages of getTextInfoSpeech *)

\* formatConfig["reportClickable"], where formatConfig is the document formatting
\* configuration in force for the call
ReportClickable == call.reportClickable

\* _shouldSpeakContentFirst, for fields without table-id and without the EDITABLE state
NeverSpeakContentFirstRoles == {"EDITABLETEXT", "COMBOBOX", "TREEVIEW", "LIST", "LANDMARK", "REGION"}

shouldSpeakContentFirst(reason, attrs) ==
    /\ reason \in FocusReasons
    /\ (attrs.presCat # "container" \/ attrs.role = "ARTICLE")
    /\ attrs.role \notin NeverSpeakContentFirstRoles

\* getControlFieldSpeech for the field at index count of its stack: the phrase it
\* returns is kept as one item (fieldType, "entry" or "outOf", count), no item
\* when it returns an empty sequence.
getControlFieldSpeech(attrs, fieldType, extraDetail, reason, count) ==
    LET presCat == attrs.presCat
        speakEntry == presCat \in {"singleLine", "marker", "cell", "container"}
        speakWithinForLine == presCat = "singleLine"
        speakExitForLine == presCat = "container" /\ attrs.role # "LANDMARK"
        speakExitForOther == presCat \in {"singleLine", "container"}
        speakContentFirst == shouldSpeakContentFirst(reason, attrs)
    IN IF \/ /\ speakEntry
             /\ \/ speakContentFirst /\ fieldType \in {"end_relative", "end_inControlFieldStack"}
                \/ ~speakContentFirst /\ fieldType \in {"start_addedToControlFieldStack", "start_relative"}
          \/ /\ speakWithinForLine /\ ~speakContentFirst /\ ~extraDetail
             /\ fieldType = "start_inControlFieldStack"
       THEN <<Item(fieldType, "entry", count)>>
       ELSE IF /\ fieldType \in {"end_removedFromControlFieldStack", "end_relative"}
               /\ (~extraDetail /\ speakExitForLine) \/ (extraDetail /\ speakExitForOther)
       THEN <<Item(fieldType, "outOf", count)>>
       ELSE <<>>

\* getFormatFieldSpeech with formatConfig["reportHighlight"]: the phrases for attrs
\* against the cached attributes (the caller stores attrs into the cache dict)
getFormatFieldSpeech(attrs, attrsCache) ==
    IF (attrs.marked = 1 \/ attrsCache.marked # 0) /\ attrs.marked # attrsCache.marked
    THEN <<Item("format", IF attrs.marked = 1 THEN "marked" ELSE "not marked", 0)>>
    ELSE <<>>

\* the comparison of a cached and a new control field (uniqueID 0: no uniqueID)
ControlFieldsEqualByMapOnly(old, new) == new = old

ControlFieldsEqual(old, new) ==
    \/ (old.uniqueID # 0 \/ new.uniqueID # 0) /\ new.uniqueID = old.uniqueID
    \/ new = old

Min(a, b) == IF a <= b THEN a ELSE b

\* the loop that counts the common fields, from 0-based index count on
RECURSIVE CommonFieldsFrom(_, _, _)
CommonFieldsFrom(old, new, count) ==
    IF count < Min(Len(new), Len(old)) /\ ControlFieldsEqual(old[count + 1], new[count + 1])
    THEN CommonFieldsFrom(old, new, count + 1)
    ELSE count

CommonFieldCountOneShort(old, new) ==
    LET n == CommonFieldsFrom(old, new, 0) IN IF n > 0 THEN n - 1 ELSE 0

CommonFieldCount(old, new) == CommonFieldsFrom(old, new, 0)

\* #2591: the exits of the fields that left the stack are spoken unless the reason is focus
SpeaksExitsUnlessFocusOnly(reason) == reason # "FOCUS"

SpeaksExits(reason) == reason \notin FocusReasons

\* endingBlock after the loop over the exited fields
EndingBlockForAnyReason(old, commonFieldCount, reason) ==
    \E i \in (commonFieldCount + 1)..Len(old) : old[i].isBlock

EndingBlock(old, commonFieldCount, reason) ==
    reason = "SAYALL" /\ \E i \in (commonFieldCount + 1)..Len(old) : old[i].isBlock

\* the exits of cached fields count down to commonFieldCount, innermost first
RECURSIVE ExitSpeechFrom(_, _, _, _, _)
ExitSpeechFrom(old, commonFieldCount, count, extraDetail, reason) ==
    IF count < commonFieldCount THEN <<>>
    ELSE getControlFieldSpeech(old[count + 1], "end_removedFromControlFieldStack", extraDetail, reason, count)
         \o ExitSpeechFrom(old, commonFieldCount, count - 1, extraDetail, reason)

ExitSpeechOutermostFirst(old, commonFieldCount, extraDetail, reason) ==
    IF SpeaksExits(reason)
    THEN LET exits == ExitSpeechFrom(old, commonFieldCount, Len(old) - 1, extraDetail, reason)
         IN [i \in 1..Len(exits) |-> exits[Len(exits) + 1 - i]]
            \o (IF EndingBlock(old, commonFieldCount, reason)
                THEN <<Item("endUtterance", "", 0)>> ELSE <<>>)
    ELSE <<>>

ExitSpeech(old, commonFieldCount, extraDetail, reason) ==
    IF SpeaksExits(reason)
    THEN ExitSpeechFrom(old, commonFieldCount, Len(old) - 1, extraDetail, reason)
         \o (IF EndingBlock(old, commonFieldCount, reason)
             THEN <<Item("endUtterance", "", 0)>> ELSE <<>>)
    ELSE <<>>

\* the fields in both stacks, if extra detail is not requested
RECURSIVE WithinSpeechFrom(_, _, _, _)
WithinSpeechFrom(new, commonFieldCount, count, reason) ==
    IF count >= commonFieldCount THEN <<>>
    ELSE getControlFieldSpeech(new[count + 1], "start_inControlFieldStack", FALSE, reason, count)
         \o WithinSpeechFrom(new, commonFieldCount, count + 1, reason)

WithinSpeech(new, commonFieldCount, extraDetail, reason) ==
    IF ~extraDetail THEN WithinSpeechFrom(new, commonFieldCount, 0, reason) ELSE <<>>

\* the generic "clickable" marker of a field entered at index count
ClickableMarker(field, inClickable, count) ==
    IF ~inClickable /\ ReportClickable /\ field.clickable /\ field.presCat \in {"none", "layout"}
    THEN <<Item("clickable", "clickable", count)>> ELSE <<>>

EntersClickableNever(field, inClickable) == FALSE

EntersClickable(field, inClickable) == ~inClickable /\ ReportClickable /\ field.clickable

\* the fields of the new stack that are not in the old one, outermost first
RECURSIVE EnterSpeechFrom(_, _, _, _, _)
EnterSpeechFrom(new, count, inClickable, extraDetail, reason) ==
    IF count >= Len(new) THEN <<>>
    ELSE LET field == new[count + 1]
         IN ClickableMarker(field, inClickable, count)
            \o getControlFieldSpeech(field, "start_addedToControlFieldStack", extraDetail, reason, count)
            \o EnterSpeechFrom(new, count + 1, inClickable \/ EntersClickable(field, inClickable),
                               extraDetail, reason)

EnterSpeechFromOutermost(new, commonFieldCount, extraDetail, reason) ==
    EnterSpeechFrom(new, 0, FALSE, extraDetail, reason)

EnterSpeech(new, commonFieldCount, extraDetail, reason) ==
    EnterSpeechFrom(new, commonFieldCount, FALSE, extraDetail, reason)

\* splitTextIndentation
RECURSIVE LeadingWhitespace(_)
LeadingWhitespace(s) ==
    IF s # <<>> /\ Head(s) \in Whitespace THEN 1 + LeadingWhitespace(Tail(s)) ELSE 0

splitTextIndentation(text) ==
    LET n == LeadingWhitespace(text)
    IN [indentation |-> SubSeq(text, 1, n), content |-> SubSeq(text, n + 1, Len(text))]

\* str.strip()
RECURSIVE LStrip(_)
LStrip(s) == IF s # <<>> /\ Head(s) \in Whitespace THEN LStrip(Tail(s)) ELSE s

Strip(s) == LStrip(RStrip(s))

\* The loop over the tokens after the initial fields.  a holds the loop's
\* variables (dict is the content of the format cache dict, raised whether a call
\* made for a token raised); c holds reason, extraDetail, reportIndentation and
\* failAt.  A collaborator's error (failAt = "relative") strikes at the first
\* field command that makes a call.
BreaksClickableRunTextOnly(cmd) == cmd = "text"

\* "Text should break a run of clickables", "Exiting a controlField should
\* break a run of clickables": the commands that set inClickable to False
BreaksClickableRun(cmd) == cmd \in {"text", "controlEnd"}

BodyStep(a, t, c) ==
    IF t.cmd = "text" THEN
        LET split == IF c.reportIndentation /\ ~a.indentationDone
                     THEN splitTextIndentation(t.s)
                     ELSE [indentation |-> <<>>, content |-> t.s]
            command == split.content
        IN [a EXCEPT !.inClickable = a.inClickable /\ ~BreaksClickableRun("text"),
                     !.allIndentation = a.allIndentation \o split.indentation,
                     !.indentationDone = a.indentationDone \/ (c.reportIndentation /\ command # <<>>),
                     !.inTextChunk = a.inTextChunk \/ command # <<>>,
                     !.rel = IF command = <<>> THEN a.rel
                             ELSE IF a.inTextChunk
                             THEN [a.rel EXCEPT ![Len(a.rel)] = TextItem(a.rel[Len(a.rel)].s \o command)]
                             ELSE Append(a.rel, TextItem(command))]
    ELSE IF t.cmd = "unknown" THEN
        \* no branch assigns fieldSequence: it still holds what the last field command left
        [a EXCEPT !.rel = IF a.inTextChunk THEN a.rel ELSE a.rel \o a.fieldSequence]
    ELSE IF c.failAt = "relative" \/ (t.cmd = "controlEnd" /\ a.stack = <<>>) THEN
        [a EXCEPT !.raised = TRUE]
    ELSE IF t.cmd = "controlStart" THEN
        LET fieldSequence ==
                ClickableMarker(t.field, a.inClickable, Len(a.stack))
                \o getControlFieldSpeech(t.field, "start_relative", c.extraDetail, c.reason, Len(a.stack))
        IN [a EXCEPT !.inTextChunk = FALSE,
                     !.inClickable = a.inClickable \/ EntersClickable(t.field, a.inClickable),
                     !.fieldSequence = fieldSequence,
                     !.rel = a.rel \o fieldSequence,
                     !.stack = Append(a.stack, t.field)]
    ELSE IF t.cmd = "controlEnd" THEN
        LET fieldSequence ==
                getControlFieldSpeech(a.stack[Len(a.stack)], "end_relative",
                                      c.extraDetail, c.reason, Len(a.stack) - 1)
        IN [a EXCEPT !.inClickable = a.inClickable /\ ~BreaksClickableRun("controlEnd"),
                     !.inTextChunk = FALSE,
                     !.fieldSequence = fieldSequence,
                     !.rel = a.rel \o fieldSequence,
                     !.stack = SubSeq(a.stack, 1, Len(a.stack) - 1),
                     !.commonFieldCount = Min(a.commonFieldCount, Len(a.stack) - 1)]
    ELSE
        LET fieldSequence == getFormatFieldSpeech(t.format, a.dict)
            inTextChunk == a.inTextChunk /\ fieldSequence = <<>>
        IN [a EXCEPT !.inTextChunk = inTextChunk,
                     !.fieldSequence = fieldSequence,
                     !.rel = IF inTextChunk THEN a.rel ELSE a.rel \o fieldSequence,
                     !.dict = t.format]

RECURSIVE BodyLoop(_, _, _)
BodyLoop(a, tokens, c) ==
    IF tokens = <<>> \/ a.raised THEN a
    ELSE LET b == BodyStep(a, Head(tokens), c)
         IN BodyLoop([b EXCEPT !.countInStack = a.countInStack /\ b.commonFieldCount <= Len(b.stack)],
                     Tail(tokens), c)

\* the fields left in the new stack that are common with the old one, for closing
RECURSIVE ClosingSpeechFrom(_, _, _)
ClosingSpeechFrom(stack, count, reason) ==
    IF count < 0 THEN <<>>
    ELSE getControlFieldSpeech(stack[count + 1], "end_inControlFieldStack", FALSE, reason, count)
         \o ClosingSpeechFrom(stack, count - 1, reason)

ClosingSpeech(stack, commonFieldCount, extraDetail, reason) ==
    IF ~extraDetail THEN ClosingSpeechFrom(stack, Min(Len(stack), commonFieldCount) - 1, reason)
    ELSE <<>>

\* the text is spelled instead of spoken: a word or character unit whose only
\* token is a text of one character
SpelledInstead(unit, body) ==
    /\ unit = "character"
    /\ body # <<>> /\ body[1].cmd = "text"
    /\ LET firstText == IF IsSpace(body[1].s) THEN body[1].s ELSE Strip(body[1].s)
       IN Len(firstText) = 1 \/ Len(unicodeNormalize(firstText)) = 1
    /\ \A i \in 2..Len(body) : body[i].cmd = "controlEnd"

\* getTextInfoSpeech(info, useCache=True, unit=unit, reason=reason) up to its
\* first yield, return or error, for the state st made by SpeakTextInfoState(info.obj)
\* whose format dict holds dict0.  in: reason, unit, N (the initial control
\* fields), newFormat (the initial format field), body, failAt.
\* Automatic language switching is off and line indentation is reported as speech.
DescribeRun(st, dict0, in) ==
    LET extraDetail == in.unit = "character"
        reportIndentation == in.unit = "line"
        old == st.stack
        L == CommonFieldCount(old, in.N)
        exits == ExitSpeech(old, L, extraDetail, in.reason)
        within == WithinSpeech(in.N, L, extraDetail, in.reason)
        enter == EnterSpeech(in.N, L, extraDetail, in.reason)
        formatSpeech == getFormatFieldSpeech(in.newFormat, dict0)
        initial == exits \o within \o enter \o formatSpeech
        spelled == SpelledInstead(in.unit, in.body)
        a0 == [stack |-> in.N, commonFieldCount |-> Len(in.N), inClickable |-> FALSE,
               inTextChunk |-> FALSE, allIndentation |-> <<>>, indentationDone |-> FALSE,
               fieldSequence |-> formatSpeech,
               rel |-> <<>>, dict |-> in.newFormat, raised |-> FALSE,
               countInStack |-> TRUE]
        a == BodyLoop(a0, in.body,
                      [reason |-> in.reason, extraDetail |-> extraDetail,
                       reportIndentation |-> reportIndentation, failAt |-> in.failAt])
        sayIndentation == reportIndentation /\ a.allIndentation # st.indent
        indentation == IF sayIndentation
                       THEN getIndentationSpeech(a.allIndentation, "SPEECH", "talk") ELSE <<>>
        relativeBlank == \A i \in 1..Len(a.rel) : a.rel[i].k = "text" => isBlank(a.rel[i].s)
        relative == IF relativeBlank THEN <<>> ELSE a.rel
        closing == ClosingSpeech(a.stack, a.commonFieldCount, extraDetail, in.reason)
        closingCalls == IF extraDetail THEN 0 ELSE Min(Len(a.stack), a.commonFieldCount)
        considerBlank == within = <<>> /\ enter = <<>> /\ relativeBlank /\ closing = <<>>
        blank == IF in.reason # "SAYALL" /\ considerBlank THEN <<TextItem(BlankMsg)>> ELSE <<>>
    IN IF in.failAt = "enter"
       THEN [end |-> "raised", L |-> L, seq |-> exits \o within, countInStack |-> TRUE,
             stack |-> in.N, dict |-> dict0, indent |-> st.indent]
       ELSE IF spelled
       THEN [end |-> "spelled", L |-> L, seq |-> initial, countInStack |-> TRUE,
             stack |-> in.N, dict |-> in.newFormat, indent |-> st.indent]
       ELSE IF a.raised
       THEN [end |-> "raised", L |-> L, seq |-> initial, countInStack |-> a.countInStack,
             stack |-> a.stack, dict |-> a.dict, indent |-> st.indent]
       ELSE IF in.failAt = "closing"
       THEN [end |-> "raised", L |-> L, seq |-> initial \o indentation \o relative,
             countInStack |-> a.countInStack,
             stack |-> a.stack, dict |-> a.dict,
             indent |-> IF sayIndentation THEN a.allIndentation ELSE st.indent]
       ELSE [end |-> "main", L |-> L, closingCalls |-> closingCalls, countInStack |-> a.countInStack,
             seq |-> initial \o indentation \o relative \o closing \o blank,
             stack |-> a.stack, dict |-> a.dict,
             indent |-> IF sayIndentation THEN a.allIndentation ELSE st.indent]

\* the stages in which a collaborator's call can raise: those in which the
\* call makes one
CanFailAt(st, dict0, in) ==
    LET L == CommonFieldCount(st.stack, in.N)
        r == DescribeRun(st, dict0, [in EXCEPT !.failAt = "none"])
    IN {"none"}
       \cup (IF L < Len(in.N) THEN {"enter"} ELSE {})
       \cup (IF ~SpelledInstead(in.unit, in.body)
                /\ \E i \in 1..Len(in.body) : in.body[i].cmd \notin {"text", "unknown"}
             THEN {"relative"} ELSE {})
       \cup (IF r.end = "main" /\ r.closingCalls > 0 THEN {"closing"} ELSE {})

\* config.conf["speech"]["delayedCharacterDescriptions"]
DelayedCharacterDescriptions == TRUE

\* The call of getTextInfoSpeech and the first next() on the generator it returns.
Describe ==
    /\ gen.pc = "idle" /\ call.outcome = "none"
    /\ \E reason \in Reasons, unit \in Units, N \in ControlFieldStacks, newFormat \in FormatFields :
       \E body \in TextWithFields(N) :
         LET st == LocalState(objState)
             in0 == [reason |-> reason, unit |-> unit, N |-> N, newFormat |-> newFormat,
                     body |-> body, failAt |-> "none"]
         IN \E failAt \in CanFailAt(st, heap[st.fmt], in0) :
            \E r \in {DescribeRun(st, heap[st.fmt], [in0 EXCEPT !.failAt = failAt])} :
              LET written == [heap EXCEPT ![st.fmt] = r.dict]
                  saysText == \E i \in 1..Len(r.seq) : r.seq[i].k # "endUtterance"
                  record == [outcome |-> "running", reason |-> reason, unit |-> unit, failAt |-> failAt,
                             P |-> st.stack, N |-> N, newFormat |-> newFormat, body |-> body,
                             L |-> r.L, seq |-> r.seq, yielded |-> <<>>,
                             final |-> r.stack, finalFormat |-> r.dict, finalIndent |-> r.indent,
                             reportClickable |-> ReportClickable, countInStack |-> r.countInStack,
                             pre |-> Snapshot(objState, heap)]
              IN CASE r.end = "raised" ->
                        /\ objState' = objState
                        /\ heap' = Collect(written, IF objState.exists THEN {objState.fmt} ELSE {})
                        /\ gen' = GenIdle
                        /\ call' = [record EXCEPT !.outcome = "raised"]
                   [] r.end = "spelled" ->
                        /\ objState' = objState
                        /\ heap' = written
                        /\ gen' = [pc |-> IF saysText THEN "yieldInitial" ELSE "yieldSpelling",
                                   stack |-> r.stack, fmt |-> st.fmt, indent |-> r.indent]
                        /\ call' = [record EXCEPT !.yielded = IF saysText THEN <<"initial">> ELSE <<"spelling">>]
                   [] r.end = "main" ->
                        /\ objState' = SpeakTextInfoState(r.stack, st.fmt, r.indent)
                        /\ heap' = Collect(written, {st.fmt})
                        /\ gen' = IF r.seq = <<>> THEN GenIdle
                                  ELSE [pc |-> "yieldMain", stack |-> r.stack, fmt |-> st.fmt, indent |-> r.indent]
                        /\ call' = IF r.seq = <<>> THEN [record EXCEPT !.outcome = "returned"]
                                   ELSE [record EXCEPT !.yielded = <<"main">>]
    /\ UNCHANGED <<sel, spell, indent, table, spk, scan, report, format, props, typed>>

\* _getTextInfoSpeech_updateCache with useCache=True, then the return
UpdateCacheAndReturn ==
    /\ objState' = SpeakTextInfoState(gen.stack, gen.fmt, gen.indent)
    /\ heap' = Collect(heap, {gen.fmt})
    /\ gen' = GenIdle
    /\ call' = [call EXCEPT !.outcome = "returned"]

\* next() on the suspended generator
Resume ==
    /\ gen.pc # "idle"
    /\ CASE gen.pc = "yieldInitial" ->
              /\ gen' = [gen EXCEPT !.pc = "yieldSpelling"]
              /\ call' = [call EXCEPT !.yielded = Append(call.yielded, "spelling")]
              /\ UNCHANGED <<objState, heap>>
         [] gen.pc = "yieldSpelling" ->
              IF call.reason = "CARET" /\ call.unit = "character" /\ DelayedCharacterDescriptions
              THEN /\ gen' = [gen EXCEPT !.pc = "yieldDescription"]
                   /\ call' = [call EXCEPT !.yielded = Append(call.yielded, "description")]
                   /\ UNCHANGED <<objState, heap>>
              ELSE UpdateCacheAndReturn
         [] gen.pc = "yieldDescription" -> UpdateCacheAndReturn
         [] gen.pc = "yieldMain" ->
              /\ gen' = GenIdle
              /\ call' = [call EXCEPT !.outcome = "returned"]
              /\ UNCHANGED <<objState, heap>>
    /\ UNCHANGED <<sel, spell, indent, table, spk, scan, report, format, props, typed>>

\* The caller stops consuming: the suspended generator is closed or dropped.
Close ==
    /\ gen.pc # "idle"
    /\ gen' = GenIdle
    /\ call' = [call EXCEPT !.outcome = "closed"]
    /\ heap' = Collect(heap, IF objState.exists THEN {objState.fmt} ELSE {})
    /\ UNCHANGED <<objState, sel, spell, indent, table, spk, scan, report, format, props, typed>>

\* The caller is done with the call and what it produced.
Release ==
    /\ call.outcome \in {"returned", "raised", "closed"}
    /\ call' = CallIdle
    /\ UNCHANGED <<objState, heap, gen, sel, spell, indent, table, spk, scan, report, format, props, typed>>

\* The subject is disposed: its state goes with it.
Dispose ==
    /\ gen.pc = "idle" /\ call.outcome = "none" /\ objState.exists
    /\ objState' = NoState
    /\ heap' = Collect(heap, {})
    /\ UNCHANGED <<gen, call, sel, spell, indent, table, spk, scan, report, format, props, typed>>

----------------------------------------------------------------------------
(* speak(): the filter, the check of the sequence, language changes, text
   processing and the hand-over to the speech manager *)

\* longest speech sequence handed to speak()
MaxSeq == 3

SpeechItem(k, s, lang, state) == [k |-> k, s |-> s, lang |-> lang, state |-> state]

Text(s) == SpeechItem("str", s, "", FALSE)
LangChangeCommand(lang) == SpeechItem("LangChangeCommand", <<>>, lang, FALSE)
CharacterModeCommand(state) == SpeechItem("CharacterModeCommand", <<>>, "", state)
SuppressUnicodeNormalizationCommand(state) ==
    SpeechItem("SuppressUnicodeNormalizationCommand", <<>>, "", state)

CHUNK_SEPARATOR == <<"sp", "sp">>

\* lang "" is None
SpeechItems ==
    {Text(<<>>), Text(<<"sp", "a", "nl">>)}
    \cup {LangChangeCommand(l) : l \in {"", "en_GB", "de"}}
    \cup {CharacterModeCommand(b) : b \in BOOLEAN}
    \cup {SuppressUnicodeNormalizationCommand(TRUE)}

SpeechSequences == UNION {[1..n -> SpeechItems] : n \in 0..MaxSeq}

\* the handlers registered with filter_speechSequence: none, or one that drops
\* the first item of the sequence
Filters == {"none", "dropFirst"}

ApplyFilterNotAtAll(filter, speechSequence) == speechSequence

ApplyFilter(filter, speechSequence) ==
    IF filter = "dropFirst" /\ speechSequence # <<>> THEN Tail(speechSequence)
    ELSE speechSequence

\* RE_CONVERT_WHITESPACE.sub(" ", text)
ConvertWhitespace(text) == [i \in 1..Len(text) |-> IF text[i] = "nl" THEN "sp" ELSE text[i]]

\* processText: the speech dictionaries, the symbols and unicodeNormalize leave
\* the letters of the model as they are
processText(locale, text, normalize) ==
    IF normalize THEN RStrip(ConvertWhitespace(text)) ELSE Strip(ConvertWhitespace(text))

\* _speechState as speak() and cancelSpeech() read and write it; a paused
\* speech has not been cancelled (pauseSpeech, cancelSpeech)
SpeakStates ==
    {st \in [speechMode : {"talk", "off", "beeps", "onDemand"}, isPaused : BOOLEAN,
             beenCanceled : BOOLEAN] : ~(st.isPaused /\ st.beenCanceled)}

SpeakConfs == [autoDialectSwitching : BOOLEAN, unicodeNormalization : BOOLEAN, langChange : BOOLEAN]

CurLanguageAsGiven(lang, conf) == IF lang = "" THEN DefaultLanguage ELSE lang

\* the language a LangChangeCommand of the incoming sequence makes current
CurLanguage(lang, conf) ==
    IF lang = "" \/ (~conf.autoDialectSwitching /\ LocaleRoot(lang) = LocaleRoot(DefaultLanguage))
    THEN DefaultLanguage
    ELSE lang

LanguageDiffersAlways(curLanguage, prevLanguage) == TRUE

LanguageDiffers(curLanguage, prevLanguage) == curLanguage # prevLanguage

\* One item of the first loop.  a.origin[i] is the index in the incoming
\* sequence of the item now at a.seq[i], 0 for an inserted LangChangeCommand.
LanguageStep(a, item, index, conf) ==
    LET appended == [a EXCEPT !.seq = Append(a.seq, item), !.origin = Append(a.origin, index)]
    IN IF item.k = "LangChangeCommand"
       THEN IF ~conf.langChange THEN a
            ELSE [a EXCEPT !.curLanguage = CurLanguage(item.lang, conf)]
       ELSE IF item.k = "SuppressUnicodeNormalizationCommand"
       THEN IF ~conf.unicodeNormalization THEN a ELSE appended
       ELSE IF item.k = "str"
       THEN IF item.s = <<>> THEN a
            ELSE IF conf.langChange /\ LanguageDiffers(a.curLanguage, a.prevLanguage)
            THEN [a EXCEPT !.seq = a.seq \o <<LangChangeCommand(a.curLanguage), item>>,
                           !.origin = a.origin \o <<0, index>>,
                           !.prevLanguage = a.curLanguage]
            ELSE appended
       ELSE appended

RECURSIVE LanguageLoop(_, _, _, _)
LanguageLoop(a, oldSpeechSequence, index, conf) ==
    IF index > Len(oldSpeechSequence) THEN a
    ELSE LanguageLoop(LanguageStep(a, oldSpeechSequence[index], index, conf),
                      oldSpeechSequence, index + 1, conf)

SeparatorAlways(inCharacterMode) == TRUE

SeparatorAfter(inCharacterMode) == ~inCharacterMode

\* One item of the second loop.
ProcessStep(b, item, conf) ==
    LET inCharacterMode == IF item.k = "CharacterModeCommand" THEN item.state ELSE b.inCharacterMode
        curLanguage == IF conf.langChange /\ item.k = "LangChangeCommand" THEN item.lang
                       ELSE b.curLanguage
        unicodeNormalization ==
            IF item.k = "SuppressUnicodeNormalizationCommand"
            THEN conf.unicodeNormalization /\ ~item.state
            ELSE b.unicodeNormalization
        processed == processText(curLanguage, item.s, unicodeNormalization)
    IN [inCharacterMode |-> inCharacterMode, curLanguage |-> curLanguage,
        unicodeNormalization |-> unicodeNormalization,
        seq |-> Append(b.seq,
                       IF item.k # "str" THEN item
                       ELSE IF SeparatorAfter(inCharacterMode) THEN Text(processed \o CHUNK_SEPARATOR)
                       ELSE Text(processed))]

RECURSIVE ProcessLoop(_, _, _, _)
ProcessLoop(b, speechSequence, index, conf) ==
    IF index > Len(speechSequence) THEN b
    ELSE ProcessLoop(ProcessStep(b, speechSequence[index], conf), speechSequence, index + 1, conf)

\* cancelSpeech(), called in speech mode talk or onDemand
CancelSpeechAlways(st) ==
    [state |-> [st EXCEPT !.beenCanceled = TRUE, !.isPaused = FALSE], cancelled |-> TRUE]

CancelSpeech(st) ==
    IF st.beenCanceled THEN [state |-> st, cancelled |-> FALSE]
    ELSE [state |-> [st EXCEPT !.beenCanceled = TRUE, !.isPaused = FALSE], cancelled |-> TRUE]

\* speak() from pre_speech.notify on.  The result says what the collaborators
\* were given: notified (pre_speech), beeped (tones.beep), cancelled
\* (_manager.cancel), forwarded and origin (_manager.speak).
SpeakRun(speechSequence, st, conf, onDemand) ==
    LET nothing == [state |-> st, notified |-> FALSE, beeped |-> FALSE, cancelled |-> FALSE,
                    forwarded |-> <<>>, origin |-> <<>>]
        notified == [nothing EXCEPT !.notified = TRUE]
        c == IF st.isPaused THEN CancelSpeech(st) ELSE [state |-> st, cancelled |-> FALSE]
        a == LanguageLoop([curLanguage |-> DefaultLanguage, prevLanguage |-> "None",
                           seq |-> <<>>, origin |-> <<>>],
                          speechSequence, 1, conf)
        b == ProcessLoop([inCharacterMode |-> FALSE, curLanguage |-> DefaultLanguage,
                          unicodeNormalization |-> conf.unicodeNormalization, seq |-> <<>>],
                         a.seq, 1, conf)
        running == [notified EXCEPT !.state = [c.state EXCEPT !.beenCanceled = FALSE],
                                    !.cancelled = c.cancelled]
    IN IF speechSequence = <<>> THEN nothing
       ELSE IF st.speechMode = "off" THEN notified
       ELSE IF st.speechMode = "beeps" THEN [notified EXCEPT !.beeped = TRUE]
       ELSE IF st.speechMode = "onDemand" /\ ~onDemand
       THEN [notified EXCEPT !.state = c.state, !.cancelled = c.cancelled]
       ELSE IF a.seq = <<>> THEN running
       ELSE [running EXCEPT !.forwarded = <<b.seq>>, !.origin = a.origin]

SpeakIdle ==
    [pc |-> "idle", input |-> <<>>, filter |-> "none", onDemand |-> FALSE,
     conf |-> [autoDialectSwitching |-> FALSE, unicodeNormalization |-> FALSE, langChange |-> FALSE],
     pre |-> [speechMode |-> "talk", isPaused |-> FALSE, beenCanceled |-> TRUE],
     state |-> [speechMode |-> "talk", isPaused |-> FALSE, beenCanceled |-> TRUE],
     seq |-> <<>>, validated |-> <<>>, notified |-> FALSE, beeped |-> FALSE,
     cancelled |-> FALSE, forwarded |-> <<>>, origin |-> <<>>,
     cancels |-> 0, cancelsUnspoken |-> 0]

\* speechSequence = filter_speechSequence.apply(speechSequence)
speakFilter ==
    /\ spk.pc = "called"
    /\ spk' = [spk EXCEPT !.pc = "filtered", !.seq = ApplyFilter(spk.filter, spk.input)]
    /\ UNCHANGED <<objState, heap, gen, call, sel, spell, indent, table, scan, report, format, props, typed>>

\* logBadSequenceTypes(speechSequence): validated holds the sequence it was given
speakValidate ==
    /\ spk.pc = "filtered"
    /\ spk' = [spk EXCEPT !.pc = "validated", !.validated = <<spk.seq>>]
    /\ UNCHANGED <<objState, heap, gen, call, sel, spell, indent, table, scan, report, format, props, typed>>

\* the rest of speak(), to its return
speakForward ==
    /\ spk.pc = "validated"
    /\ \E r \in {SpeakRun(spk.seq, spk.state, spk.conf, spk.onDemand)} :
         spk' = [spk EXCEPT !.pc = "returned", !.state = r.state, !.notified = r.notified,
                            !.beeped = r.beeped, !.cancelled = r.cancelled,
                            !.forwarded = r.forwarded, !.origin = r.origin]
    /\ UNCHANGED <<objState, heap, gen, call, sel, spell, indent, table, scan, report, format, props, typed>>

InitSpeak ==
    /\ \E speechSequence \in SpeechSequences, filter \in Filters, st \in SpeakStates,
          conf \in SpeakConfs, onDemand \in BOOLEAN :
          /\ onDemand => st.speechMode = "onDemand"
          /\ spk = [SpeakIdle EXCEPT !.pc = "called", !.input = speechSequence,
                                    !.filter = filter, !.onDemand = onDemand, !.conf = conf,
                                    !.pre = st, !.state = st]
    /\ objState = NoState
    /\ heap = [d \in DictIds |-> EmptyFormat]
    /\ gen = GenIdle
    /\ call = CallIdle
    /\ sel = SelIdle /\ spell = SpellIdle /\ indent = IndentIdle /\ table = TableIdle
    /\ scan = ScanIdle
    /\ report = ReportIdle
    /\ format = FormatIdle
    /\ props = PropsIdle
    /\ typed = TypedIdle

NextSpeak == speakFilter \/ speakValidate \/ speakForward

SpecSpeak == InitSpeak /\ [][NextSpeak]_vars

----------------------------------------------------------------------------
(* _speechState under calls of speak, cancelSpeech, pauseSpeech and setSpeechMode *)

\* most calls of _manager.cancel counted
MaxCancels == 2

\* the sequences spoken: nothing, a text, and an empty text (nothing is left of
\* it after the first loop of speak)
StateSequences == {<<>>, <<Text(<<"a">>)>>, <<Text(<<>>)>>}

\* SpeechState() as constructed
InitialSpeechState == [speechMode |-> "talk", isPaused |-> FALSE, beenCanceled |-> TRUE]

\* cancelSpeech(), in any speech mode
CancelSpeechInAnyMode(st) == CancelSpeech(st)

CancelSpeechInMode(st) ==
    IF st.speechMode \in {"off", "beeps"} THEN [state |-> st, cancelled |-> FALSE]
    ELSE CancelSpeech(st)

\* pauseSpeech(switch)
PausedKeepingCanceled(st, switch) == [st EXCEPT !.isPaused = switch]

Paused(st, switch) == [st EXCEPT !.isPaused = switch, !.beenCanceled = FALSE]

\* speak() reaches "_speechState.beenCanceled = False"
ClearsBeenCanceled(speechSequence, st, onDemand) ==
    /\ speechSequence # <<>>
    /\ st.speechMode \notin {"off", "beeps"}
    /\ st.speechMode = "onDemand" => onDemand

\* cancels counts the calls of _manager.cancel since beenCanceled was last
\* cleared, cancelsUnspoken those since the last pauseSpeech or speak() that
\* handed a sequence to _manager.speak
Count(n, cancelled) == IF cancelled THEN n + 1 ELSE n

speakCall ==
    /\ spk.cancelsUnspoken < MaxCancels
    /\ \E speechSequence \in StateSequences, onDemand \in BOOLEAN :
         \E r \in {SpeakRun(ApplyFilter("none", speechSequence), spk.state, SpeakIdle.conf, onDemand)} :
           spk' = [SpeakIdle EXCEPT
                     !.pc = "speak", !.input = speechSequence, !.onDemand = onDemand,
                     !.seq = speechSequence, !.validated = <<speechSequence>>,
                     !.pre = spk.state, !.state = r.state, !.notified = r.notified,
                     !.beeped = r.beeped, !.cancelled = r.cancelled,
                     !.forwarded = r.forwarded, !.origin = r.origin,
                     !.cancels = IF ClearsBeenCanceled(speechSequence, spk.state, onDemand)
                                 THEN 0 ELSE Count(spk.cancels, r.cancelled),
                     !.cancelsUnspoken = IF r.forwarded # <<>> THEN 0
                                         ELSE Count(spk.cancelsUnspoken, r.cancelled)]
    /\ UNCHANGED <<objState, heap, gen, call, sel, spell, indent, table, scan, report, format, props, typed>>

cancelSpeechCall ==
    /\ spk.cancelsUnspoken < MaxCancels
    /\ \E r \in {CancelSpeechInMode(spk.state)} :
         spk' = [SpeakIdle EXCEPT
                   !.pc = "cancelSpeech", !.pre = spk.state, !.state = r.state,
                   !.cancelled = r.cancelled,
                   !.cancels = Count(spk.cancels, r.cancelled),
                   !.cancelsUnspoken = Count(spk.cancelsUnspoken, r.cancelled)]
    /\ UNCHANGED <<objState, heap, gen, call, sel, spell, indent, table, scan, report, format, props, typed>>

pauseSpeechCall ==
    /\ spk.cancelsUnspoken < MaxCancels
    /\ \E switch \in BOOLEAN :
         spk' = [SpeakIdle EXCEPT
                   !.pc = "pauseSpeech", !.pre = spk.state, !.state = Paused(spk.state, switch)]
    /\ UNCHANGED <<objState, heap, gen, call, sel, spell, indent, table, scan, report, format, props, typed>>

setSpeechModeCall ==
    /\ spk.cancelsUnspoken < MaxCancels
    /\ \E newMode \in {"talk", "off", "beeps", "onDemand"} :
         spk' = [SpeakIdle EXCEPT
                   !.pc = "setSpeechMode", !.pre = spk.state,
                   !.state = [spk.state EXCEPT !.speechMode = newMode],
                   !.cancels = spk.cancels, !.cancelsUnspoken = spk.cancelsUnspoken]
    /\ UNCHANGED <<objState, heap, gen, call, sel, spell, indent, table, scan, report, format, props, typed>>

InitSpeechState ==
    /\ spk = [SpeakIdle EXCEPT !.pre = InitialSpeechState, !.state = InitialSpeechState]
    /\ objState = NoState /\ heap = <<>> /\ gen = GenIdle /\ call = CallIdle
    /\ sel = SelIdle /\ spell = SpellIdle /\ indent = IndentIdle /\ table = TableIdle
    /\ scan = ScanIdle /\ report = ReportIdle /\ format = FormatIdle /\ props = PropsIdle
    /\ typed = TypedIdle

NextSpeechState == speakCall \/ cancelSpeechCall \/ pauseSpeechCall \/ setSpeechModeCall

SpecSpeechState == InitSpeechState /\ [][NextSpeechState]_vars

----------------------------------------------------------------------------
(* The specifications *)

Init ==
    /\ objState = NoState
    /\ heap = [d \in DictIds |-> EmptyFormat]
    /\ gen = GenIdle
    /\ call = CallIdle
    /\ sel = SelIdle /\ spell = SpellIdle /\ indent = IndentIdle
    /\ table = TableIdle /\ spk = SpeakIdle /\ scan = ScanIdle
    /\ report = ReportIdle
    /\ format = FormatIdle
    /\ props = PropsIdle
    /\ typed = TypedIdle

Next == Describe \/ Resume \/ Close \/ Release \/ Dispose

Spec == Init /\ [][Next]_vars

\* speakTextInfo on longer texts and deeper stacks: one call, consumed to its end.

\* deepest stack of initial fields, and most tokens after them
MaxDepth == 3
MaxTokens == 4

GroupingField == ControlField(3, "x", "GROUPING", "layout", FALSE, TRUE)

DeepControlFields == {ListField, LinkField, SectionField, GroupingField}

DeepControlFieldStacks ==
    {st \in UNION {[1..n -> DeepControlFields] : n \in 0..MaxDepth} :
        \A i, j \in 1..Len(st) : i # j => st[i].role # st[j].role}

StreamTokens ==
    {TextToken(<<"a">>), ControlEnd, UnknownCommand, FormatChange(FormatField(1))}
    \cup {ControlStart(f) : f \in {ListField, SectionField, GroupingField}}

\* the token streams of a well-formed document after its initial fields, with
\* field commands of any tag and with the controlEnd commands at their end
StreamTextWithFields(initialStack) ==
    {b \in UNION {[1..n -> StreamTokens] : n \in 0..MaxTokens} :
        /\ b # <<>> => b[1].cmd \notin {"controlStart", "formatChange"}
        /\ StackAfter(initialStack, b) # BadStack}

\* endFieldCount: the controlEnd commands at the end of textWithFields
RECURSIVE EndFieldCount(_)
EndFieldCount(textWithFields) ==
    IF textWithFields # <<>> /\ textWithFields[Len(textWithFields)].cmd = "controlEnd"
    THEN 1 + EndFieldCount(SubSeq(textWithFields, 1, Len(textWithFields) - 1))
    ELSE 0

KeepTrailingEnds(textWithFields) == textWithFields

\* del textWithFields[0 - endFieldCount:]
DeleteTrailingEnds(textWithFields) ==
    SubSeq(textWithFields, 1, Len(textWithFields) - EndFieldCount(textWithFields))

\* Calls that move between two positions of a document (the cached stack P and
\* the initial fields N differ at will, little text), and calls on a stream of
\* tokens from a shallow position.
SpeakTextInfoCalls ==
    {c \in [P : ControlFieldStacks \cup DeepControlFieldStacks, N : DeepControlFieldStacks,
            reason : Reasons, unit : Units,
            body : {<<>>, <<TextToken(<<"a">>)>>, <<TextToken(<<"a">>), ControlEnd>>},
            reportClickable : BOOLEAN] : StackAfter(c.N, c.body) # BadStack}
    \cup UNION {[P : {<<>>}, N : {n}, reason : Reasons, unit : Units, body : StreamTextWithFields(n),
                 reportClickable : BOOLEAN] :
                   n \in {<<>>, <<ListField>>, <<SectionField>>}}

InitSpeakTextInfo ==
    /\ \E c \in SpeakTextInfoCalls :
          /\ objState = IF c.P = <<>> THEN NoState ELSE SpeakTextInfoState(c.P, 1, <<>>)
          /\ call = [CallIdle EXCEPT !.outcome = "pending", !.P = c.P, !.N = c.N,
                                     !.reason = c.reason, !.unit = c.unit, !.body = c.body,
                                     !.reportClickable = c.reportClickable]
    /\ heap = [d \in DictIds |-> EmptyFormat]
    /\ gen = GenIdle
    /\ sel = SelIdle /\ spell = SpellIdle /\ indent = IndentIdle
    /\ table = TableIdle /\ spk = SpeakIdle /\ scan = ScanIdle
    /\ report = ReportIdle
    /\ format = FormatIdle
    /\ props = PropsIdle
    /\ typed = TypedIdle

\* speakTextInfo(info, useCache=True, unit=unit, reason=reason): the generator of
\* getTextInfoSpeech is consumed to its end and every sequence it yields is spoken.
speakTextInfo ==
    /\ call.outcome = "pending"
    /\ LET st == LocalState(objState)
           in == [reason |-> call.reason, unit |-> call.unit, N |-> call.N,
                  newFormat |-> call.newFormat, body |-> DeleteTrailingEnds(call.body),
                  failAt |-> "none"]
       IN \E r \in {DescribeRun(st, heap[st.fmt], in)} :
            LET written == [heap EXCEPT ![st.fmt] = r.dict]
            IN /\ objState' = IF r.end = "raised" THEN objState
                              ELSE SpeakTextInfoState(r.stack, st.fmt, r.indent)
               /\ heap' = Collect(written, IF r.end = "raised" /\ ~objState.exists THEN {} ELSE {st.fmt})
               /\ call' = [call EXCEPT !.outcome = IF r.end = "raised" THEN "raised" ELSE "returned",
                                       !.L = r.L, !.seq = r.seq, !.countInStack = r.countInStack,
                                       !.yielded = IF r.end = "spelled" THEN <<"initial", "spelling">>
                                                   ELSE IF r.end = "main" /\ r.seq # <<>> THEN <<"main">>
                                                   ELSE <<>>,
                                       !.final = r.stack, !.finalFormat = r.dict,
                                       !.finalIndent = r.indent,
                                       !.pre = Snapshot(objState, heap)]
    /\ UNCHANGED <<gen, sel, spell, indent, table, spk, scan, report, format, props, typed>>

NextSpeakTextInfo == speakTextInfo

SpecSpeakTextInfo == InitSpeakTextInfo /\ [][NextSpeakTextInfo]_vars

InitSelection ==
    /\ \E m \in SelMessages, t \in SelTexts :
          sel = [SelIdle EXCEPT !.message = m, !.len = t.len, !.blank = t.blank]
    /\ objState = NoState /\ heap = <<>> /\ gen = GenIdle /\ call = CallIdle
    /\ spell = SpellIdle /\ indent = IndentIdle
    /\ table = TableIdle /\ spk = SpeakIdle /\ scan = ScanIdle
    /\ report = ReportIdle
    /\ format = FormatIdle
    /\ props = PropsIdle
    /\ typed = TypedIdle

NextSelection == speakSelectionMessage

SpecSelection == InitSelection /\ [][NextSelection]_vars

InitIndentation ==
    /\ \E s \in Indentations, m \in ReportLineIndentation, sm \in SpeechMode :
          indent = [IndentIdle EXCEPT !.indentation = s, !.mode = m, !.speechMode = sm]
    /\ objState = NoState /\ heap = <<>> /\ gen = GenIdle /\ call = CallIdle
    /\ spell = SpellIdle /\ sel = SelIdle
    /\ table = TableIdle /\ spk = SpeakIdle /\ scan = ScanIdle
    /\ report = ReportIdle
    /\ format = FormatIdle
    /\ props = PropsIdle
    /\ typed = TypedIdle

NextIndentation == IndentationSpeech

SpecIndentation == InitIndentation /\ [][NextIndentation]_vars

InitSpelling ==
    /\ \E t \in SpellTexts, l \in SpellLocales, d \in BOOLEAN, cf \in SpellConfigs :
          spell = [SpellIdle EXCEPT !.text = t, !.locale = l, !.useCharacterDescriptions = d, !.conf = cf]
    /\ objState = NoState /\ heap = <<>> /\ gen = GenIdle /\ call = CallIdle
    /\ sel = SelIdle /\ indent = IndentIdle
    /\ table = TableIdle /\ spk = SpeakIdle /\ scan = ScanIdle
    /\ report = ReportIdle
    /\ format = FormatIdle
    /\ props = PropsIdle
    /\ typed = TypedIdle

NextSpelling == getSpellingSpeech

SpecSpelling == InitSpelling /\ [][NextSpelling]_vars

InitCharDescList ==
    /\ \E t \in ScanTexts, l \in ScanLocales :
          scan = [ScanIdle EXCEPT !.pc = "loop", !.input = t, !.locale = l, !.text = t, !.i = Len(t)]
    /\ objState = NoState /\ heap = <<>> /\ gen = GenIdle /\ call = CallIdle
    /\ sel = SelIdle /\ spell = SpellIdle /\ indent = IndentIdle
    /\ table = TableIdle /\ spk = SpeakIdle
    /\ report = ReportIdle
    /\ format = FormatIdle
    /\ props = PropsIdle
    /\ typed = TypedIdle

NextCharDescList == scanLookup \/ scanReturn

\* the loop is sequential code: its next iteration is always taken
SpecCharDescList == InitCharDescList /\ [][NextCharDescList]_vars /\ WF_vars(NextCharDescList)

InitReport ==
    /\ objState = NoState /\ heap = <<>> /\ gen = GenIdle /\ call = CallIdle
    /\ sel = SelIdle /\ spell = SpellIdle /\ indent = IndentIdle
    /\ table = TableIdle /\ spk = SpeakIdle /\ scan = ScanIdle
    /\ report = ReportIdle
    /\ format = FormatIdle
    /\ props = PropsIdle
    /\ typed = TypedIdle

NextReport == reportProperties \/ releaseReport

SpecReport == InitReport /\ [][NextReport]_vars

InitFormat ==
    /\ objState = NoState /\ heap = <<>> /\ gen = GenIdle /\ call = CallIdle
    /\ sel = SelIdle /\ spell = SpellIdle /\ indent = IndentIdle
    /\ table = TableIdle /\ spk = SpeakIdle /\ scan = ScanIdle
    /\ report = ReportIdle /\ format = FormatIdle
    /\ props = PropsIdle
    /\ typed = TypedIdle

NextFormat == formatFieldSpeech \/ releaseFormat

SpecFormat == InitFormat /\ [][NextFormat]_vars

InitTyped ==
    /\ typed = TypedIdle
    /\ objState = NoState /\ heap = <<>> /\ gen = GenIdle /\ call = CallIdle
    /\ sel = SelIdle /\ spell = SpellIdle /\ indent = IndentIdle /\ table = TableIdle
    /\ spk = SpeakIdle
    /\ scan = ScanIdle /\ report = ReportIdle /\ format = FormatIdle /\ props = PropsIdle

NextTyped == speakTypedCharacters \/ suppressSpeakTypedCharacters

SpecTyped == InitTyped /\ [][NextTyped]_vars

InitObjectProperties ==
    /\ objState = NoState /\ heap = <<>> /\ gen = GenIdle /\ call = CallIdle
    /\ sel = SelIdle /\ spell = SpellIdle /\ indent = IndentIdle
    /\ table = TableIdle /\ spk = SpeakIdle /\ scan = ScanIdle
    /\ report = ReportIdle /\ format = FormatIdle /\ props = PropsIdle
    /\ typed = TypedIdle

NextObjectProperties == getObjectPropertiesSpeech \/ releaseProperties

SpecObjectProperties == InitObjectProperties /\ [][NextObjectProperties]_vars

InitProperties ==
    /\ table = TableIdle
    /\ objState = NoState /\ heap = <<>> /\ gen = GenIdle /\ call = CallIdle
    /\ sel = SelIdle /\ spell = SpellIdle /\ indent = IndentIdle /\ spk = SpeakIdle /\ scan = ScanIdle
    /\ report = ReportIdle
    /\ format = FormatIdle
    /\ props = PropsIdle
    /\ typed = TypedIdle

NextProperties == getPropertiesSpeech \/ ReleaseProperties

SpecProperties == InitProperties /\ [][NextProperties]_vars

NextTableEntry == tableStart \/ tableCell \/ releaseTableField

SpecTableEntry == InitProperties /\ [][NextTableEntry]_vars

----------------------------------------------------------------------------
(* Properties of getTextInfoSpeech, checked under Spec *)

CallStarted == call.outcome # "none"

\* C1: a describe call that fails with an error leaves the subject's cached
\* snapshot (stack, format attributes, indentation) exactly as it was before the call.
C1_FailedCallLeavesSnapshot ==
    call.outcome = "raised" => Snapshot(objState, heap) = call.pre

\* C2: a describe call that returned, or that the caller stopped consuming,
\* leaves the cached snapshot all-or-nothing: either the stack, the format
\* attributes and the indentation are all those of this call, or the snapshot is
\* what it was before the call.
C2_SnapshotAllOrNothing ==
    call.outcome \in {"returned", "closed"} =>
        \/ Snapshot(objState, heap) = call.pre
        \/ Snapshot(objState, heap) =
               [exists |-> TRUE, stack |-> call.final, format |-> call.finalFormat,
                indent |-> call.finalIndent]

\* the fragments of kind k in the speech sequence of the call
Fragments(kinds) == {i \in 1..Len(call.seq) : call.seq[i].k \in kinds}

EnterKind == "start_addedToControlFieldStack"
ExitKind == "end_removedFromControlFieldStack"


\* C3: a describe call whose cached stack equals its new stack produces no enter
\* fragment and no exit fragment, for every stack and every reason.
C3_SameStackNoEnterNoExit ==
    (CallStarted /\ call.P = call.N) => Fragments({EnterKind, ExitKind}) = {}

C3_Witness ==
    /\ call.outcome = "returned" /\ call.P = call.N /\ Len(call.P) = 2
    /\ call.reason = "CARET" /\ call.unit = "line" /\ call.seq # <<>>

\* two entries are equal when both carry a uniqueID and the two match, or
\* when their attribute maps are equal
EntriesEqual(p, n) ==
    \/ p.uniqueID # 0 /\ n.uniqueID # 0 /\ p.uniqueID = n.uniqueID
    \/ p = n

IsCommonPrefix(P, N, L) ==
    L <= Min(Len(P), Len(N)) /\ \A i \in 1..L : EntriesEqual(P[i], N[i])

LargestCommonPrefix(P, N) ==
    CHOOSE L \in 0..Min(Len(P), Len(N)) :
        /\ IsCommonPrefix(P, N, L)
        /\ \A M \in 0..Min(Len(P), Len(N)) : IsCommonPrefix(P, N, M) => M <= L

\* C4: the common-prefix length the call computes for the cached stack P and the
\* new stack N is the largest L <= min(len(P), len(N)) with P[i] and N[i] equal
\* for every i < L.
C4_CommonPrefixIsLargest ==
    CallStarted => call.L = LargestCommonPrefix(call.P, call.N)

C4_Witness ==
    /\ CallStarted
    /\ call.P = <<ListField, LinkField>> /\ call.N = <<ListFieldRenamed, SectionField>>
    /\ call.L = 1

\* C5 as stated: no fragment of the stack diff (enter, exit, "still inside" or
\* closing phrase) addresses a stack entry at an index below the common-prefix
\* length; the shared entries contribute no phrase.
C5_NoFragmentBelowPrefix ==
    CallStarted =>
        \A i \in Fragments({EnterKind, ExitKind, "start_inControlFieldStack",
                            "end_inControlFieldStack"}) :
            call.seq[i].n >= LargestCommonPrefix(call.P, call.N)

\* C5 as amended: no enter fragment and no exit fragment addresses an index below
\* the common-prefix length, and when extra detail is requested (character or word
\* unit) the shared entries get no "still inside" and no closing phrase either.
C5_NoEnterOrExitBelowPrefix ==
    CallStarted =>
        /\ \A i \in Fragments({EnterKind, ExitKind}) :
              call.seq[i].n >= LargestCommonPrefix(call.P, call.N)
        /\ call.unit = "character" =>
              Fragments({"start_inControlFieldStack", "end_inControlFieldStack"}) = {}

C5_Witness ==
    /\ call.outcome = "returned" /\ call.reason = "CARET" /\ call.unit = "line"
    /\ call.P = <<SectionField, ListField>> /\ call.N = <<SectionField, LinkField>>
    /\ call.L = 1
    /\ Fragments({EnterKind}) # {} /\ Fragments({ExitKind}) # {}

\* C6 as stated: with a focus-type reason (focus, quick navigation) the call
\* produces no exit fragment for any boundary.
C6_FocusNoExitAtAll ==
    (CallStarted /\ call.reason \in FocusReasons) =>
        \A i \in Fragments({ExitKind, "end_relative"}) : call.seq[i].s # "outOf"

\* C6 as amended: with a focus-type reason the call produces no exit fragment for
\* a cached entry that is not in the new stack, even when the new stack is
\* shorter; a boundary-end token inside the text still gets its exit phrase.
C6_FocusNoExitOfRemoved ==
    (CallStarted /\ call.reason \in FocusReasons) => Fragments({ExitKind}) = {}

C6_Witness ==
    /\ call.outcome = "returned" /\ call.reason = "QUICKNAV" /\ call.unit = "line"
    /\ call.P = <<LinkField, ListField>> /\ call.N = <<LinkField>>
    /\ Fragments({ExitKind}) = {}

----------------------------------------------------------------------------
(* Properties of speakSelectionMessage, checked under SpecSelection *)

\* C7: a selected text of at most MAX_LENGTH_FOR_SELECTION_REPORTING (512) characters,
\* 512 included, is spoken literally; a longer one is reported by its character count.
C7_LiteralUpToThreshold ==
    sel.called =>
        /\ sel.len <= MAX_LENGTH_FOR_SELECTION_REPORTING => sel.seq[1].s \in {"literal", "blank"}
        /\ sel.len > MAX_LENGTH_FOR_SELECTION_REPORTING => sel.seq[1].s = "count"

----------------------------------------------------------------------------
(* Properties of getSpellingSpeech, checked under SpecSpelling *)

C9_ComposedPairIsOneNormalizedUnit ==
    (/\ spell.called
     /\ spell.conf.unicodeNormalization /\ ~spell.useCharacterDescriptions
     /\ Len(spell.text) = 2 /\ Len(unicodeNormalize(spell.text)) = 1)
        => /\ Len(spell.units) = 1
           /\ spell.units[1].normalized
           /\ spell.units[1].speakCharAs = unicodeNormalize(spell.text)
           /\ CountKind(spell.inner, "endUtterance") = 1
           /\ spell.inner[Len(spell.inner)].k = "endUtterance"
           /\ Cardinality({i \in 1..Len(spell.inner) :
                              spell.inner[i] = TextItem(spell.units[1].speakCharAs)}) = 1
           /\ spell.conf.reportNormalizedForCharacterNavigation
                 => \E i \in 1..Len(spell.inner) : spell.inner[i] = TextItem(NormalizedMsgAfter)

C9_Witness ==
    /\ spell.called /\ spell.text = <<"A", "acute">> /\ spell.locale = "hi"
    /\ spell.conf.unicodeNormalization /\ ~spell.useCharacterDescriptions
    /\ Len(spell.units) = 1 /\ spell.units[1].normalized

\* the items of seq up to and with its first end-of-unit marker, and what follows them
RECURSIVE FirstUnitLength(_)
FirstUnitLength(seq) ==
    IF seq = <<>> THEN 0
    ELSE IF Head(seq).k = "endUtterance" THEN 1
    ELSE 1 + FirstUnitLength(Tail(seq))

RECURSIVE UnitSegments(_)
UnitSegments(seq) ==
    IF seq = <<>> THEN <<>>
    ELSE <<SubSeq(seq, 1, FirstUnitLength(seq))>>
         \o UnitSegments(SubSeq(seq, FirstUnitLength(seq) + 1, Len(seq)))

\* where in a unit's items the item of kind k, content s stands (0: not there)
PlaceOf(segment, k, s) ==
    LET S == {i \in 1..Len(segment) : segment[i].k = k /\ segment[i].s = s}
    IN IF S = {} THEN 0 ELSE CHOOSE i \in S : TRUE

CharModeAt(seq, i) ==
    LET S == {j \in 1..(i - 1) : seq[j].k = "charMode"}
    IN S # {} /\ seq[CHOOSE j \in S : \A h \in S : h <= j].s = "on"

\* C23: with the synthesizer's spelling functionality on, a text of the spelling
\* sequence stands in character mode exactly when it is one character long, and
\* the sequence holds as many CharacterModeCommand(False) as
\* CharacterModeCommand(True): every run is closed.
C23_CharModeBracketsBalanced ==
    (spell.called /\ spell.conf.useSpellingFunctionality) =>
        /\ \A i \in 1..Len(spell.seq) :
              spell.seq[i].k = "text" => (CharModeAt(spell.seq, i + 1) <=> Len(spell.seq[i].s) = 1)
        /\ Cardinality({i \in 1..Len(spell.seq) : spell.seq[i] = Item("charMode", "on", 1)})
              = Cardinality({i \in 1..Len(spell.seq) : spell.seq[i] = Item("charMode", "off", 0)})

----------------------------------------------------------------------------
(* Properties of getCharDescListFromText, checked under SpecCharDescList *)

RECURSIVE ConcatUnits(_)
ConcatUnits(list) ==
    IF list = <<>> THEN <<>> ELSE Head(list).ch \o ConcatUnits(Tail(list))

\* the text that remained when the k-th unit was taken
RemainingAt(k) ==
    SubSeq(scan.input, Len(ConcatUnits(SubSeq(scan.charDescList, 1, k - 1))) + 1, Len(scan.input))

Described(locale, s) == getCharacterDescription(locale, s) # <<>>

UnitIsLongestDescribedPrefix(k) ==
    LET u == scan.charDescList[k].ch
        rem == RemainingAt(k)
    IN /\ Len(u) >= 1 /\ Len(u) <= Len(rem) /\ u = SubSeq(rem, 1, Len(u))
       /\ \A j \in (Len(u) + 1)..Len(rem) : ~Described(scan.locale, SubSeq(rem, 1, j))
       /\ Described(scan.locale, u) \/ Len(u) = 1

\* C25: getCharDescListFromText returns for every text; the units of the list
\* it returns, put together, are the text; every unit is the longest prefix of
\* the text remaining that has a description, or one code point when no prefix has.
C25_ScanReturnsLongestMatches ==
    /\ <>(scan.pc = "done")
    /\ [](scan.pc = "done" =>
            /\ ConcatUnits(scan.charDescList) = scan.input
            /\ \A k \in 1..Len(scan.charDescList) : UnitIsLongestDescribedPrefix(k)
            /\ scan.charDescList = getCharDescListFromText(scan.input, scan.locale))

\* a conjunct of two code points is one unit, after a unit with no description
C25_Witness ==
    /\ scan.pc = "done" /\ Len(scan.charDescList) >= 3
    /\ \E k \in 2..Len(scan.charDescList) :
          /\ Len(scan.charDescList[k].ch) = 2
          /\ ~Described(scan.locale, scan.charDescList[k - 1].ch)

----------------------------------------------------------------------------
(* Properties of getIndentationSpeech, checked under SpecIndentation *)

\* the weighted width of an indentation: 4 per tab, 1 per other character
WeightedWidth(s) == 4 * CountChar(s, "tab") + (Len(s) - CountChar(s, "tab"))

SpokenForm(s) ==
    LET runs == IndentationRuns(ReplaceNbsp(s))
    IN [i \in 1..Len(runs) |-> IndentationRunText(runs[i])]

OneBeepOrForcedSpeech ==
    LET w == WeightedWidth(indent.indentation)
    IN /\ w <= 72 =>
             /\ CountKind(indent.seq, "beep") = 1
             /\ indent.mode = "TONES" => CountKind(indent.seq, "text") = 0
       /\ w > 72 =>
             /\ indent.seq = SpokenForm(indent.indentation)
             /\ CountKind(indent.seq, "beep") = 0

\* C10 as stated: for a non-empty indentation with tones configured, a weighted
\* width of at most 72 gives exactly one beep (and no text in tones-only mode), a
\* larger one gives the spoken form and no beep.
C10_TonesConfigured ==
    (indent.called /\ indent.indentation # <<>> /\ indent.mode \in {"TONES", "SPEECH_AND_TONES"})
        => OneBeepOrForcedSpeech

\* C10 as amended: the same, provided the speech mode is talk; in any other
\* speech mode the tone setting is ignored.
C10_TonesConfiguredAndTalking ==
    (/\ indent.called /\ indent.indentation # <<>>
     /\ indent.mode \in {"TONES", "SPEECH_AND_TONES"} /\ indent.speechMode = "talk")
        => OneBeepOrForcedSpeech

C10_Witness ==
    /\ indent.called /\ indent.indentation = Repeat("tab", 18)
    /\ indent.mode = "TONES" /\ indent.speechMode = "talk"
    /\ indent.seq = <<IndentBeep(72)>>

----------------------------------------------------------------------------
(* Properties of getPropertiesSpeech, checked under SpecProperties *)

\* the phrases of kind k in the report
Phrases(kinds) == {i \in 1..Len(table.seq) : table.seq[i].k \in kinds}

RowPhrases == Phrases({"rowHeaderText", "rowNumber"})
ColumnPhrases == Phrases({"columnHeaderText", "columnNumber"})

\* a span that is not given counts as 1
SpanOf(span) == IF span = 0 THEN 1 ELSE span

\* two table-cell reports in a row, both returned to the caller
ConsecutiveCellReports ==
    /\ table.reported /\ ~table.raised
    /\ table.last.isCell /\ TableValues(table.this).isCell

SameTableAndRow ==
    /\ ConsecutiveCellReports
    /\ table.this.tableID # 0 /\ table.this.tableID = table.last.tableID
    /\ table.this.rowNumber # 0 /\ table.this.rowNumber = table.last.rowNumber

\* C11 as stated: of two consecutive table-cell reports with the same table id and
\* the same row number, the second emits no row phrase (no row header text, no "row N").
C11_SameRowNoRowPhrase == SameTableAndRow => RowPhrases = {}

\* C11 as amended: of two consecutive table-cell reports with the same table id,
\* the same row number and the same row span, the second emits no row phrase;
\* when only the row span differs the row is announced again.
C11_SameRowAndSpanNoRowPhrase ==
    SameTableAndRow =>
        (RowPhrases = {} <=> SpanOf(table.this.rowSpan) = SpanOf(table.last.rowSpan)
                             \/ (~table.this.rowHeaderText
                                 /\ ~(table.this.includeTableCellCoords /\ ~table.this.cellCoordsText)))

C11_Witness ==
    /\ SameTableAndRow
    /\ table.this.rowSpan = table.last.rowSpan
    /\ table.this.rowHeaderText /\ table.this.includeTableCellCoords /\ ~table.this.cellCoordsText
    /\ table.this.columnNumber # 0 /\ table.this.columnNumber # table.last.columnNumber
    /\ RowPhrases = {} /\ ColumnPhrases # {}

\* C12: a table-cell report whose table id differs from the table id of the
\* table-cell report before it announces both its row and its column, even when
\* the row and column numbers are the ones last reported: "row N" and "column N"
\* when coordinates are reported by number, and the header texts it was given.
C12_OtherTableAnnouncesRowAndColumn ==
    (/\ ConsecutiveCellReports
     /\ table.this.tableID # 0 /\ table.last.tableID # 0
     /\ table.this.tableID # table.last.tableID
     /\ table.this.rowNumber # 0 /\ table.this.columnNumber # 0)
    => /\ (table.this.includeTableCellCoords /\ ~table.this.cellCoordsText)
              => (Phrases({"rowNumber"}) # {} /\ Phrases({"columnNumber"}) # {})
       /\ table.this.rowHeaderText => Phrases({"rowHeaderText"}) # {}
       /\ table.this.columnHeaderText => Phrases({"columnHeaderText"}) # {}

C12_Witness ==
    /\ ConsecutiveCellReports
    /\ table.this.tableID = 2 /\ table.last.tableID = 1
    /\ table.this.rowNumber = 1 /\ table.last.rowNumber = 1
    /\ table.this.columnNumber = 2 /\ table.last.columnNumber = 2
    /\ table.this.rowSpan = table.last.rowSpan /\ table.this.columnSpan = table.last.columnSpan
    /\ table.this.includeTableCellCoords /\ ~table.this.cellCoordsText
    /\ Phrases({"rowNumber"}) # {} /\ Phrases({"columnNumber"}) # {}

\* the report of a table cell that follows the report of a table's row or column count
CellAfterCounts ==
    /\ table.reported /\ ~table.raised /\ table.entered
    /\ table.this.rowNumber # 0 /\ table.this.columnNumber # 0

\* C38: a report that gives a row count or a column count leaves no table id
\* remembered, and the table-cell report that follows it announces its row and its
\* column ("row N" and "column N" when coordinates are reported by number, and the
\* header texts it was given), also when its table id, row number and column number
\* are those of the last cell reported before.  Checked under SpecTableEntry.
C38_CellAfterCountsAnnounced ==
    /\ (table.reported /\ Phrases({"rowAndColumnCount"}) # {}) => table.state.oldTableID = 0
    /\ CellAfterCounts =>
          /\ table.this.includeTableCellCoords
                => (Phrases({"rowNumber"}) # {} /\ Phrases({"columnNumber"}) # {})
          /\ table.this.rowHeaderText => Phrases({"rowHeaderText"}) # {}
          /\ table.this.columnHeaderText => Phrases({"columnHeaderText"}) # {}

C38_Witness ==
    /\ CellAfterCounts
    /\ table.lastCell.isCell
    /\ table.this.tableID = table.lastCell.tableID
    /\ table.this.rowNumber = table.lastCell.rowNumber
    /\ table.this.columnNumber = table.lastCell.columnNumber
    /\ table.this.rowSpan = table.lastCell.rowSpan
    /\ table.this.includeTableCellCoords
    /\ Phrases({"rowNumber"}) # {} /\ Phrases({"columnNumber"}) # {}

ThroughPhrases(of) == {i \in Phrases({"through"}) : table.seq[i].s = of}

\* the cell has a row number and a column number, coordinates are reported by
\* number, and neither "row N" nor "column N" is in the report
RowAndColumnSuppressed ==
    /\ table.this.rowNumber # 0 /\ table.this.columnNumber # 0
    /\ table.this.includeTableCellCoords /\ ~table.this.cellCoordsText
    /\ RowPhrases = {} /\ ColumnPhrases = {}

\* C27: in a table-cell report "through N" follows the row phrase only when the
\* row span is greater than 1 and the column span is not, follows the column
\* phrase only when the column span is greater than 1 and the row span is not,
\* and "through row R column C" is used only when both are greater than 1; no
\* span phrase is in a report whose row and column phrases were both suppressed
\* as unchanged.
C27_SpanPhraseOnlyWithSpanningDimension ==
    (table.reported /\ ~table.raised) =>
        /\ ThroughPhrases("row") # {} =>
              (SpanOf(table.this.rowSpan) > 1 /\ SpanOf(table.this.columnSpan) <= 1)
        /\ ThroughPhrases("column") # {} =>
              (SpanOf(table.this.columnSpan) > 1 /\ SpanOf(table.this.rowSpan) <= 1)
        /\ ThroughPhrases("row and column") # {} =>
              (SpanOf(table.this.rowSpan) > 1 /\ SpanOf(table.this.columnSpan) > 1)
        /\ RowAndColumnSuppressed => Phrases({"through"}) = {}


----------------------------------------------------------------------------
(* Properties of the role in getPropertiesSpeech, checked under SpecReport *)

RolePhrases == {i \in 1..Len(report.seq) : report.seq[i].k = "role"}

\* a report for a quiet reason, with a role of silentRolesOnFocus and no role text
QuietSilentRole ==
    /\ report.called /\ report.this.roleKey = "role"
    /\ report.reason \in {"CARET", "SAYALL", "FOCUS", "QUICKNAV"}
    /\ report.this.role \in silentRolesOnFocus
    /\ ~report.this.roleText

\* C26 as stated: for a quiet reason (caret, say all, focus, quick navigation),
\* with none of name, value, cell coordinates, row number and column number
\* present, a role of the silent-on-focus set and no role text, the report has no
\* role phrase.
C26_SilentRoleAloneNotSpoken ==
    (QuietSilentRole /\ ~OtherContent(report.this)) => RolePhrases = {}

\* C26 as amended: for a quiet reason, with at least one of name, spoken value,
\* cell coordinates, row number and column number present, a role of the
\* silent-on-focus set and no role text, the report has no role phrase.
C26_SilentRoleNextToContentNotSpoken ==
    (QuietSilentRole /\ OtherContent(report.this)) => RolePhrases = {}

C26_Witness ==
    /\ QuietSilentRole /\ report.reason = "CARET" /\ report.this.role = "PANE"
    /\ report.this.name /\ ~report.this.value
    /\ report.seq = <<Item("name", "name", 0)>>


----------------------------------------------------------------------------
(* Properties of getFormatFieldSpeech, checked under SpecFormat *)

FormatPhrases(kinds) == {i \in 1..Len(format.seq) : format.seq[i].k \in kinds}

\* a call with tables reported, for a field in a table, with a table in the cache
TableToTable ==
    /\ format.called /\ format.conf.reportTables
    /\ format.this.tableInfo.given /\ format.old.tableInfo.given

\* C28: getTableInfoSpeech announces the row and the column whenever the table
\* id of the field differs from the cached table id, even when the row and column
\* numbers are the cached ones; with the table id unchanged it repeats neither
\* an unchanged row number nor an unchanged column number.
C28_OtherTableAnnouncesRowAndColumn ==
    TableToTable =>
        /\ format.this.tableInfo.id # format.old.tableInfo.id =>
              (FormatPhrases({"tableRow"}) # {} /\ FormatPhrases({"tableColumn"}) # {})
        /\ format.this.tableInfo.id = format.old.tableInfo.id =>
              /\ format.this.tableInfo.row = format.old.tableInfo.row =>
                    FormatPhrases({"tableRow"}) = {}
              /\ format.this.tableInfo.col = format.old.tableInfo.col =>
                    FormatPhrases({"tableColumn"}) = {}

AttributePhrases(a, n) ==
    {i \in FormatPhrases({"attribute"}) : format.seq[i].s = a /\ format.seq[i].n = n}

\* C29: for every attribute that is on or off and whose category is reported,
\* the positive phrase is in the result exactly when the attribute is set in the
\* field and not set in the cache, the negative phrase exactly when it is set in
\* the cache and not set in the field (so neither when it is set in neither);
\* an absent value counts as not set.
C29_BinaryAttributePhrases ==
    format.called =>
        \A a \in {"bold", "italic", "underline", "strikethrough", "hidden", "marked", "strong", "emphasised"} :
            format.conf[ReportedUnder(a)] =>
                /\ AttributePhrases(a, 1) # {} <=>
                      (format.this.binary[a] = "yes" /\ format.old.binary[a] # "yes")
                /\ AttributePhrases(a, 0) # {} <=>
                      (format.old.binary[a] = "yes" /\ format.this.binary[a] # "yes")

\* a call with pages reported, for a field with one text column, and no text
\* column count in the cache
FirstFormattingOneColumn ==
    /\ format.called /\ format.conf.reportPage
    /\ format.old.textColumnCount = 0 /\ format.this.textColumnCount = 1

\* C31 as stated: when the cache holds no column count and the column count of
\* the field is 1, the result has no page phrase, no section phrase and no
\* column-count phrase.
C31_FirstFormattingNoPageSectionColumn ==
    FirstFormattingOneColumn => FormatPhrases({"page", "section", "textColumn"}) = {}

\* C31 as amended: when the cache holds no column count and the column count of
\* the field is 1, the result has no text column phrase; the page and the
\* section are announced whenever the field gives a number that differs from the cache.
C31_FirstFormattingNoColumn ==
    FirstFormattingOneColumn =>
        /\ FormatPhrases({"textColumn"}) = {}
        /\ FormatPhrases({"page"}) # {} <=>
              (format.this.pageNumber # 0 /\ format.this.pageNumber # format.old.pageNumber)
        /\ FormatPhrases({"section"}) # {} <=>
              (format.this.sectionNumber # 0 /\ format.this.sectionNumber # format.old.sectionNumber)

C31_Witness ==
    /\ FirstFormattingOneColumn
    /\ format.old = NoAttrs
    /\ format.this.pageNumber = 1 /\ format.this.sectionNumber = 1 /\ format.this.textColumnNumber = 1
    /\ format.seq = <<Item("page", "page", 1), Item("section", "section", 1)>>

\* a call with the field of the call before it
RepeatedField == format.called /\ format.this = format.last

\* C39: after a call the attributes cache holds the attributes of the new field and
\* nothing else, and a call repeated at once with the same field emits no phrase
\* for the attributes that are reported on change (table cell, page, section, text
\* column, colors, the attributes that are on or off).
C39_CacheIsTheFieldAndRepeatIsSilent ==
    /\ format.called => format.cache = format.this
    /\ RepeatedField => format.seq = <<>>

C39_Witness ==
    /\ RepeatedField
    /\ format.this # NoAttrs /\ format.old = format.this
    /\ format.conf.reportTables /\ format.conf.reportPage /\ format.conf.reportColor
    /\ format.conf.fontAttributeReporting /\ format.conf.reportEmphasis
    /\ format.conf.reportHighlight
    /\ format.seq = <<>>

\* the color phrases of the result
ColorPhrases == [i \in 1..Cardinality(FormatPhrases({"colorOn", "color", "background"})) |->
                    format.seq[CHOOSE j \in FormatPhrases({"colorOn", "color", "background"}) :
                                  Cardinality({h \in FormatPhrases({"colorOn", "color", "background"}) : h <= j}) = i]]

BackgroundOf(attrs) ==
    <<attrs.backgroundColor>> \o (IF attrs.backgroundColor2 # "" THEN <<attrs.backgroundColor2>> ELSE <<>>)

\* the one rendering the claim gives for the two changes
ColorRendering(fgChanged, bgChanged) ==
    IF fgChanged /\ bgChanged
    THEN <<Item("colorOn", <<format.this.color>> \o BackgroundOf(format.this), 2)>>
    ELSE IF fgChanged THEN <<Item("color", <<format.this.color>>, 1)>>
    ELSE IF bgChanged THEN <<Item("background", BackgroundOf(format.this), 0)>>
    ELSE <<>>

\* C30 as stated: with colors reported, "X on Y" when the foreground and the
\* background both differ from the cache, "X" when only the foreground differs,
\* "Y background" when only the background differs, no color phrase when neither does.
C30_ColorPairByDifference ==
    (format.called /\ format.conf.reportColor) =>
        ColorPhrases = ColorRendering(
            format.this.color # format.old.color,
            \/ format.this.backgroundColor # format.old.backgroundColor
            \/ format.this.backgroundColor2 # format.old.backgroundColor2)

\* C30 as amended: the same, a color counting as changed when the field gives
\* it and it differs from the cache (for the background: the field gives a
\* background color and either background color differs from the cache).
C30_ColorPairByGivenDifference ==
    (format.called /\ format.conf.reportColor) =>
        ColorPhrases = ColorRendering(
            format.this.color # "" /\ format.this.color # format.old.color,
            /\ format.this.backgroundColor # ""
            /\ \/ format.this.backgroundColor # format.old.backgroundColor
               \/ format.this.backgroundColor2 # format.old.backgroundColor2)

\* only the second background color changed: "Y to Z background"
C30_Witness ==
    /\ format.called /\ format.conf.reportColor
    /\ format.old.color = "red" /\ format.this.color = "red"
    /\ format.old.backgroundColor = "white" /\ format.this.backgroundColor = "white"
    /\ format.old.backgroundColor2 = "" /\ format.this.backgroundColor2 = "grey"
    /\ ColorPhrases = <<Item("background", <<"white", "grey">>, 0)>>


----------------------------------------------------------------------------
(* Properties of _speechState, checked under SpecSpeechState *)

\* C33: in every state reached by calls of speak, cancelSpeech, pauseSpeech and
\* setSpeechMode in any order, isPaused implies not beenCanceled; a speak() that
\* hands a sequence on while speech is paused has called _manager.cancel first
\* and leaves isPaused false and beenCanceled false.
C33_PausedIsNotCanceled ==
    /\ spk.state.isPaused => ~spk.state.beenCanceled
    /\ (spk.pc = "speak" /\ spk.pre.isPaused /\ spk.forwarded # <<>>) =>
          (spk.cancelled /\ ~spk.state.isPaused /\ ~spk.state.beenCanceled)

C33_Witness ==
    spk.pc = "speak" /\ spk.pre.isPaused /\ spk.forwarded # <<>> /\ spk.cancelled

\* a cancelSpeech that finds beenCanceled true does not reach _manager.cancel
\* and leaves _speechState as it is
CanceledStaysCanceled ==
    (spk.pc = "cancelSpeech" /\ spk.pre.beenCanceled) => (~spk.cancelled /\ spk.state = spk.pre)

\* C34 as stated: _manager.cancel is called at most once between two
\* consecutive events of: a speak() that hands a sequence on, a pauseSpeech;
\* once beenCanceled is true further cancelSpeech calls do not reach
\* _manager.cancel and do not change _speechState.
C34_OneCancelBetweenSpokenOrPaused == spk.cancelsUnspoken <= 1 /\ CanceledStaysCanceled

\* C34 as amended: _manager.cancel is called at most once between two
\* consecutive events that clear beenCanceled: a pauseSpeech, or a speak() that
\* passes the speech mode checks, whether or not it hands a sequence on; once
\* beenCanceled is true further cancelSpeech calls do not reach _manager.cancel
\* and do not change _speechState.
C34_OneCancelBetweenClears == spk.cancels <= 1 /\ CanceledStaysCanceled

C34_Witness ==
    /\ spk.pc = "cancelSpeech" /\ spk.pre.beenCanceled /\ ~spk.cancelled
    /\ spk.cancels = 1 /\ spk.cancelsUnspoken = 1

\* C35: in speech mode off or beeps speak() hands nothing on and cancelSpeech
\* does not call _manager.cancel, and both leave beenCanceled and isPaused as
\* they are; in speech mode onDemand a sequence is handed on only for an
\* on-demand script, input help or a say all started from a script.
C35_SilentModesLeaveState ==
    /\ (spk.pc = "speak" /\ spk.pre.speechMode \in {"off", "beeps"}) =>
          (spk.forwarded = <<>> /\ ~spk.cancelled /\ spk.state = spk.pre)
    /\ (spk.pc = "cancelSpeech" /\ spk.pre.speechMode \in {"off", "beeps"}) =>
          (~spk.cancelled /\ spk.state = spk.pre)
    /\ (spk.pc = "speak" /\ spk.pre.speechMode = "onDemand" /\ spk.forwarded # <<>>) =>
          spk.onDemand

C35_Witness ==
    /\ spk.pc = "cancelSpeech" /\ spk.pre.speechMode = "beeps"
    /\ spk.pre.isPaused /\ ~spk.pre.beenCanceled /\ spk.state = spk.pre


----------------------------------------------------------------------------
(* Properties of speakTypedCharacters, checked under SpecTyped *)

\* what a call made while typing is protected speaks and keeps, in run i
MaskedIn(i) ==
    /\ \A j \in 1..Len(typed.spoken[i]) :
         /\ typed.spoken[i][j].k # "text"
         /\ typed.spoken[i][j].k = "spelling" => typed.spoken[i][j].s = <<"*">>
    /\ typed.ch[i] \in {"a", "b"} =>
         /\ typed.buf[i] # <<>>
         /\ typed.buf[i][Len(typed.buf[i])] = "*"

Masked == typed.called /\ typed.protected => MaskedIn(1) /\ MaskedIn(2)

\* C36 (as claimed): for characters typed while typing is protected the echo holds
\* only the mask character, a completed word is not spoken and the word buffer gets
\* the mask character; two runs that differ only in the protected characters speak
\* the same.
C36_ProtectedTypingSpeaksTheSame ==
    /\ Masked
    /\ typed.spoken[1] = typed.spoken[2]

\* C36 (amended): the same, for two runs whose protected characters are of the same
\* kind (letter, mark or number; backspace; U+007F; other control character; other
\* character).
C36_ProtectedTypingOfAKindSpeaksTheSame ==
    /\ Masked
    /\ typed.sameKind => typed.spoken[1] = typed.spoken[2]

C36_Witness ==
    /\ typed.called /\ typed.protected /\ typed.sameKind
    /\ typed.ch[1] # typed.ch[2]
    /\ typed.spoken[1] # <<>>
    /\ typed.buf[1] # <<>>

----------------------------------------------------------------------------
(* Properties of getObjectPropertiesSpeech, checked under SpecObjectProperties *)

PropertyPhrases(kinds) == {i \in 1..Len(props.seq) : props.seq[i].k \in kinds}

\* a call that fetched a description that has a value and is equal to the name fetched
DescriptionRepeatsName ==
    /\ props.called /\ ~props.locked
    /\ props.allowed.name /\ props.allowed.description
    /\ props.obj.description # "" /\ props.obj.description = props.obj.name

\* C32: a description that is not empty and equal to the name is not spoken,
\* for every reason but CHANGE; for CHANGE it is kept: it is spoken unless it is
\* the description in the cache, and it is stored in the cache.
C32_DuplicateDescriptionDropped ==
    DescriptionRepeatsName =>
        /\ props.reason # "CHANGE" => PropertyPhrases({"description"}) = {}
        /\ props.reason = "CHANGE" =>
              /\ props.cache.description = props.obj.description
              /\ props.old.description # props.obj.description =>
                    PropertyPhrases({"description"}) # {}

C32_Witness ==
    /\ DescriptionRepeatsName /\ props.reason = "FOCUS"
    /\ props.seq = <<Item("name", "a", 0)>>

StatePhrases(n) == {props.seq[i].s : i \in {j \in PropertyPhrases({"state"}) : props.seq[j].n = n}}

\* the description of the call was dropped as a duplicate of the name
DescriptionDropped == DescriptionRepeatsName /\ props.reason # "CHANGE"

\* C37: the values fetched are merged into the cache of the object for every
\* reason, before anything is spoken (a description dropped as a duplicate of
\* the name is not among them); for ONLYCACHE the result is empty; for CHANGE a
\* property whose value is the cached value contributes nothing, and of the
\* states only those added since the cache are spoken as positive and only
\* those removed as negative.
C37_MergedThenSpokenByChange ==
    (props.called /\ ~props.locked) =>
        /\ props.cache.name = IF props.allowed.name THEN props.obj.name ELSE props.old.name
        /\ props.cache.description =
              IF props.allowed.description /\ ~DescriptionDropped
              THEN props.obj.description ELSE props.old.description
        /\ props.cache.states = IF props.allowed.states THEN props.obj.states ELSE props.old.states
        /\ props.reason = "ONLYCACHE" => props.seq = <<>>
        /\ props.reason = "CHANGE" =>
              /\ (props.allowed.name /\ props.obj.name = props.old.name) =>
                    PropertyPhrases({"name"}) = {}
              /\ (props.allowed.description /\ props.obj.description = props.old.description) =>
                    PropertyPhrases({"description"}) = {}
              /\ (props.allowed.states /\ props.old.hasStates) =>
                    /\ StatePhrases(1) = props.obj.states \ props.old.states
                    /\ StatePhrases(0) = props.old.states \ props.obj.states

C37_Witness ==
    /\ props.called /\ ~props.locked /\ props.reason = "CHANGE"
    /\ props.allowed.name /\ props.allowed.states /\ props.old.hasStates
    /\ props.obj.name = "a" /\ props.old.name = "a"
    /\ props.old.states = {"CHECKED"} /\ props.obj.states = {"BUSY"}
    /\ props.seq = <<Item("state", "BUSY", 1), Item("state", "CHECKED", 0)>>


----------------------------------------------------------------------------
(* Properties of speak(), checked under SpecSpeak *)

\* C14: speak() applies the filter to the incoming sequence first and then has
\* the filtered sequence checked; until both are done nothing has been handed
\* to a collaborator (pre_speech, the tones, the manager) and _speechState is
\* as it was at the call.
C14_FilterThenValidateThenSpeak ==
    /\ spk.pc \in {"called", "filtered"} =>
          /\ spk.forwarded = <<>> /\ ~spk.notified /\ ~spk.beeped /\ ~spk.cancelled
          /\ spk.state = spk.pre
    /\ spk.pc = "called" => spk.validated = <<>>
    /\ spk.pc \in {"validated", "returned"} =>
          spk.validated = <<IF spk.filter = "dropFirst" /\ spk.input # <<>>
                            THEN Tail(spk.input) ELSE spk.input>>

C14_Witness ==
    /\ spk.pc = "returned" /\ spk.filter = "dropFirst" /\ Len(spk.input) > 1
    /\ spk.forwarded # <<>> /\ spk.state # spk.pre

\* the last LangChangeCommand among the first n items of seq, 0 when there is none
LastLangChange(seq, n) ==
    LET S == {i \in 1..n : seq[i].k = "LangChangeCommand"}
    IN IF S = {} THEN 0 ELSE CHOOSE i \in S : \A j \in S : j <= i

\* the language that is current where item j of the filtered sequence stands
ActiveLocaleAt(j) ==
    LET i == LastLangChange(spk.validated[1], j - 1)
    IN IF i = 0 THEN DefaultLanguage ELSE CurLanguage(spk.validated[1][i].lang, spk.conf)

LastEmittedBefore(out, i) ==
    LET k == LastLangChange(out, i - 2) IN IF k = 0 THEN "None" ELSE out[k].lang

\* C15: with language switching on, in the sequence handed to the manager every
\* LangChangeCommand is directly followed by a text, and a text is directly
\* preceded by one (of the current language) exactly when the current language
\* differs from the language of the LangChangeCommand emitted last before it.
C15_LangChangeOnlyBeforeText ==
    (spk.conf.langChange /\ spk.forwarded # <<>>) =>
        LET out == spk.forwarded[1]
        IN /\ \A i \in 1..Len(out) :
                 out[i].k = "LangChangeCommand" => (i < Len(out) /\ out[i + 1].k = "str")
           /\ \A i \in 1..Len(out) :
                 out[i].k = "str" =>
                    LET inserted == i > 1 /\ out[i - 1].k = "LangChangeCommand"
                        active == ActiveLocaleAt(spk.origin[i])
                    IN /\ inserted <=> (active # LastEmittedBefore(out, i))
                       /\ inserted => out[i - 1].lang = active

C15_Witness ==
    /\ spk.conf.langChange /\ spk.forwarded # <<>>
    /\ \E i, j \in 1..Len(spk.forwarded[1]) :
          /\ i < j
          /\ spk.forwarded[1][i].k = "LangChangeCommand"
          /\ spk.forwarded[1][j].k = "LangChangeCommand"
          /\ spk.forwarded[1][i].lang # spk.forwarded[1][j].lang

\* C22: the sequence handed to the manager holds no LangChangeCommand to a
\* dialect of the default language when dialect switching is off, and no
\* LangChangeCommand to the language of the LangChangeCommand before it: no text
\* is preceded by a change to the language the text before it was spoken in.
C22_NoChangeToLanguageInEffect ==
    spk.forwarded # <<>> =>
        LET out == spk.forwarded[1]
        IN \A i \in 1..Len(out) :
              out[i].k = "LangChangeCommand" =>
                 /\ out[i].lang # ""
                 /\ ~spk.conf.autoDialectSwitching =>
                       (LocaleRoot(out[i].lang) = LocaleRoot(DefaultLanguage)
                           => out[i].lang = DefaultLanguage)
                 /\ \A h \in 1..(i - 1) :
                       (out[h].k = "LangChangeCommand" /\ out[h].lang = out[i].lang)
                           => \E m \in (h + 1)..(i - 1) : out[m].k = "LangChangeCommand"

C22_Witness ==
    /\ spk.pc = "returned" /\ spk.conf.langChange /\ ~spk.conf.autoDialectSwitching
    /\ spk.filter = "none" /\ Len(spk.input) = 3
    /\ spk.input[1] = Text(<<"sp", "a", "nl">>)
    /\ spk.input[2] = LangChangeCommand("en_GB")
    /\ spk.input[3] = Text(<<"sp", "a", "nl">>)
    /\ spk.forwarded # <<>>
    /\ Len(spk.forwarded[1]) = 3

EndsWithSeparator(s) ==
    Len(s) >= Len(CHUNK_SEPARATOR)
    /\ SubSeq(s, Len(s) - Len(CHUNK_SEPARATOR) + 1, Len(s)) = CHUNK_SEPARATOR

\* the state of the last CharacterModeCommand before item i
InCharacterModeAt(out, i) ==
    LET S == {j \in 1..(i - 1) : out[j].k = "CharacterModeCommand"}
    IN S # {} /\ out[CHOOSE j \in S : \A k \in S : k <= j].state

\* C16: in the sequence handed to the manager, a text ends with CHUNK_SEPARATOR
\* exactly when it is not inside character mode.
C16_SeparatorOutsideCharacterMode ==
    spk.forwarded # <<>> =>
        \A i \in 1..Len(spk.forwarded[1]) :
            spk.forwarded[1][i].k = "str" =>
                (EndsWithSeparator(spk.forwarded[1][i].s) <=> ~InCharacterModeAt(spk.forwarded[1], i))

C16_Witness ==
    /\ spk.forwarded # <<>>
    /\ \E i, j \in 1..Len(spk.forwarded[1]) :
          /\ spk.forwarded[1][i].k = "str" /\ spk.forwarded[1][j].k = "str"
          /\ ~InCharacterModeAt(spk.forwarded[1], i)
          /\ InCharacterModeAt(spk.forwarded[1], j)


----------------------------------------------------------------------------
(* Properties of getTextInfoSpeech on deeper stacks and longer texts, checked
   under SpecSpeakTextInfo *)

\* C13: a describe call whose text with fields holds a field command of an
\* unknown tag does not get as far as yielding or returning: it fails.
C13_UnknownTagFails ==
    (\E i \in 1..Len(call.body) : call.body[i].cmd = "unknown")
        => call.outcome \in {"none", "pending", "raised"}

\* where the items of kind k stand in seq
Positions(seq, k) == {i \in 1..Len(seq) : seq[i].k = k}

ExitPositions == Positions(call.seq, "end_removedFromControlFieldStack")
EnterPositions == Positions(call.seq, "start_addedToControlFieldStack")
ClickablePositions == Positions(call.seq, "clickable")

\* C17: with a reason that is not a focus reason, the exit phrases are those of
\* the cached fields at indices len(P)-1 down to L, in that order, the enter
\* phrases those of the new fields at indices L up to len(N)-1, in that order,
\* and every exit phrase stands before every enter phrase.
C17_ExitsInnermostFirstThenEnters ==
    (call.outcome = "returned" /\ call.reason \notin FocusReasons) =>
        /\ {call.seq[i].n : i \in ExitPositions}
              = {c \in call.L..(Len(call.P) - 1) :
                    getControlFieldSpeech(call.P[c + 1], "end_removedFromControlFieldStack",
                                          call.unit = "character", call.reason, c) # <<>>}
        /\ \A i, j \in ExitPositions : i < j => call.seq[i].n > call.seq[j].n
        /\ {call.seq[i].n : i \in EnterPositions}
              = {c \in call.L..(Len(call.N) - 1) :
                    getControlFieldSpeech(call.N[c + 1], "start_addedToControlFieldStack",
                                          call.unit = "character", call.reason, c) # <<>>}
        /\ \A i, j \in EnterPositions : i < j => call.seq[i].n < call.seq[j].n
        /\ \A i \in ExitPositions, j \in EnterPositions : i < j

C17_Witness ==
    /\ call.outcome = "returned" /\ call.reason \notin FocusReasons
    /\ call.L > 0
    /\ Cardinality(ExitPositions) >= 2 /\ Cardinality(EnterPositions) >= 2

\* C18: the sequence holds one EndUtteranceCommand, after every exit phrase and
\* before every enter phrase and clickable marker, when the reason is say-all
\* and one of the exited fields is a block, and none otherwise.
C18_EndUtteranceAfterExitedBlock ==
    call.outcome = "returned" =>
        LET marks == Positions(call.seq, "endUtterance")
            expected == /\ call.reason = "SAYALL"
                        /\ \E c \in (call.L + 1)..Len(call.P) : call.P[c].isBlock
        IN /\ Cardinality(marks) = IF expected THEN 1 ELSE 0
           /\ \A m \in marks :
                 /\ \A i \in ExitPositions : i < m
                 /\ \A j \in EnterPositions \cup ClickablePositions : m < j

C18_Witness ==
    /\ call.outcome = "returned" /\ call.reason = "SAYALL"
    /\ Positions(call.seq, "endUtterance") # {}
    /\ ExitPositions # {} /\ EnterPositions # {} /\ ClickablePositions # {}

EnteredEvents ==
    [i \in 1..(Len(call.N) - call.L) |-> ControlStart(call.N[call.L + i])] \o call.body

\* event e starts a clickable field of no or layout presentation category, and
\* no clickable field was started before it since the last text or end of a field
ExpectedMarker(ev, e) ==
    /\ ev[e].cmd = "controlStart"
    /\ call.reportClickable
    /\ ev[e].field.clickable /\ ev[e].field.presCat \in {"none", "layout"}
    /\ \A d \in 1..(e - 1) :
          (ev[d].cmd = "controlStart" /\ ev[d].field.clickable)
              => \E x \in (d + 1)..(e - 1) : ev[x].cmd \in {"text", "controlEnd"}

RECURSIVE ExpectedMarkerCounts(_, _, _)
ExpectedMarkerCounts(base, ev, e) ==
    IF e > Len(ev) THEN <<>>
    ELSE (IF ExpectedMarker(ev, e) THEN <<Len(StackAfter(base, SubSeq(ev, 1, e - 1)))>> ELSE <<>>)
         \o ExpectedMarkerCounts(base, ev, e + 1)

RECURSIVE MarkerCounts(_)
MarkerCounts(seq) ==
    IF seq = <<>> THEN <<>>
    ELSE (IF Head(seq).k = "clickable" THEN <<Head(seq).n>> ELSE <<>>) \o MarkerCounts(Tail(seq))

TrailingEnds(tokens) ==
    CHOOSE k \in 0..Len(tokens) :
        /\ \A i \in (Len(tokens) - k + 1)..Len(tokens) : tokens[i].cmd = "controlEnd"
        /\ k < Len(tokens) => tokens[Len(tokens) - k].cmd # "controlEnd"

\* C21, as stated: the cached stack is the initial stack with every controlStart
\* of the stream pushed and every controlEnd popped, and the common field count
\* never exceeded the length of the stack during the call.
C21_CacheIsStackAfterAllTokens ==
    call.outcome = "returned" =>
        /\ objState.exists
        /\ objState.stack = StackAfter(call.N, call.body)
        /\ call.countInStack

\* C21, amended: the controlEnd commands at the end of the stream are deleted
\* before it is walked and pop nothing; the cached stack is the initial stack
\* after the tokens before them.
C21_CacheIsStackAfterKeptTokens ==
    call.outcome = "returned" =>
        /\ objState.exists
        /\ objState.stack
              = StackAfter(call.N, SubSeq(call.body, 1, Len(call.body) - TrailingEnds(call.body)))
        /\ call.countInStack

C21_Witness ==
    /\ call.outcome = "returned"
    /\ Len(call.body) = 4 /\ call.N # <<>>
    /\ call.body[1].cmd = "controlEnd" /\ call.body[3].cmd = "controlStart"
    /\ call.body[4].cmd = "controlEnd"
    /\ objState.stack = <<call.body[3].field>>

====
